---- MODULE Spec2Model ----
(***************************************************************************)
(* Order-mutation coordination and position-risk state machine of          *)
(* ritmex-bot-pro: GreedyTakeProfitManager, TrendEngine, MakerEngine and   *)
(* EnhancedTrendEngine, with the exchange they talk to.                    *)
(*                                                                         *)
(* Prices and money are integers in one unit (a cent); percentages are     *)
(* exact rationals [n, d] compared by cross-multiplication, so the model   *)
(* computes what the source computes wherever the floating-point result is *)
(* exact to within the source's own 1e-10 tolerance.                       *)
(***************************************************************************)
EXTENDS Integers, Sequences, FiniteSets, TLC

\* ------------------------------------------------------------------------
\* Bounds of the model
\* ------------------------------------------------------------------------
MaxClock == 2

\* ------------------------------------------------------------------------
\* Generic helpers
\* ------------------------------------------------------------------------
NoState == [isActive |-> FALSE]

Abs(x) == IF x < 0 THEN 0 - x ELSE x

Max2(a, b) == IF a >= b THEN a ELSE b

Min2(a, b) == IF a <= b THEN a ELSE b

RECURSIVE SumSeq(_)
SumSeq(s) == IF s = <<>> THEN 0 ELSE Head(s) + SumSeq(Tail(s))

\* a percentage as the exact rational n / d, d > 0
Pct(n, d) == [n |-> n, d |-> d]

\* ------------------------------------------------------------------------
\* GreedyTakeProfitManager (utils/greedy-take-profit)
\* ------------------------------------------------------------------------
VARIABLES greedyConfig, greedyState, now, greedyCall

\* profit ratio of currentPrice against entryPrice as the rational
\* (currentPrice - entryPrice) * mult / entryPrice
calculateProfitPercent(currentPrice, entryPrice, direction) ==
    Pct((currentPrice - entryPrice) * (IF direction = "long" THEN 1 ELSE -1), entryPrice)

\* a >= b for rationals with positive denominators
PctGE(a, b) == a.n * b.d >= b.n * a.d

PctAdd(a, b) == Pct(a.n * b.d + b.n * a.d, a.d * b.d)

activateGreedy(currentPrice, entryPrice, direction, baseProfitPercent, t) ==
    [isActive |-> TRUE,
     activatedAt |-> t,
     entryPrice |-> entryPrice,
     direction |-> direction,
     priceHistory |-> <<currentPrice>>,
     bestPrice |-> currentPrice,
     initialProfitPercent |-> baseProfitPercent]

\* returns the manager's next state and the boolean the method returns
shouldActivateGreedy(st, cfg, t, currentPrice, entryPrice, direction, baseProfitPercent) ==
    IF ~cfg.enabled \/ st.isActive
    THEN [state |-> st, ret |-> FALSE]
    ELSE IF PctGE(calculateProfitPercent(currentPrice, entryPrice, direction), baseProfitPercent)
         THEN [state |-> activateGreedy(currentPrice, entryPrice, direction, baseProfitPercent, t),
               ret |-> TRUE]
         ELSE [state |-> st, ret |-> FALSE]

updatePriceHistory(st, cfg, currentPrice) ==
    LET pushed == Append(st.priceHistory, currentPrice)
    IN  [st EXCEPT !.priceHistory =
            IF Len(pushed) > cfg.sampleSize THEN Tail(pushed) ELSE pushed]

updateBestPrice(st, currentPrice) ==
    [st EXCEPT !.bestPrice =
        IF st.direction = "long" THEN Max2(st.bestPrice, currentPrice)
                                 ELSE Min2(st.bestPrice, currentPrice)]

\* a reversal test that forgets the direction of the position
detectPriceReversalUnsigned(st, cfg, currentPrice) ==
    IF ~st.isActive \/ Len(st.priceHistory) < 3
    THEN FALSE
    ELSE LET n   == Len(st.priceHistory)
             sum == SumSeq(st.priceHistory)
         IN  Abs(currentPrice * n - sum) * cfg.reversalThreshold.d
                 > cfg.reversalThreshold.n * sum

\* deviation = (currentPrice - avg) / avg with avg = sum / n, i.e.
\* (currentPrice * n - sum) / sum; compared with -/+ reversalThreshold
detectPriceReversal(st, cfg, currentPrice) ==
    IF ~st.isActive \/ Len(st.priceHistory) < 3
    THEN FALSE
    ELSE LET n   == Len(st.priceHistory)
             sum == SumSeq(st.priceHistory)
             dev == Pct(currentPrice * n - sum, sum)
         IN  IF st.direction = "long"
             THEN dev.n * cfg.reversalThreshold.d < (0 - cfg.reversalThreshold.n) * dev.d
             ELSE dev.n * cfg.reversalThreshold.d > cfg.reversalThreshold.n * dev.d

NoVerdict == [shouldTakeProfit |-> FALSE, reason |-> "none", threw |-> FALSE]

Verdict(reason) == [shouldTakeProfit |-> TRUE, reason |-> reason, threw |-> FALSE]

\* the timeout branch calls resetState() and then reads
\* this.state.initialProfitPercent while building the returned object:
\* state is null there, so the read raises a TypeError and nothing is returned
Threw == [shouldTakeProfit |-> FALSE, reason |-> "TypeError", threw |-> TRUE]

\* an update that compares the profit with extraProfitTarget alone
updateAndCheckTakeProfitNoBaseline(st, cfg, t, currentPrice) ==
    IF ~st.isActive \/ ~cfg.enabled
    THEN [state |-> st, res |-> NoVerdict]
    ELSE IF t - st.activatedAt > cfg.maxWaitTime
    THEN [state |-> NoState, res |-> Threw]
    ELSE LET s1 == updateBestPrice(updatePriceHistory(st, cfg, currentPrice), currentPrice)
             currentProfitPercent ==
                 calculateProfitPercent(currentPrice, s1.entryPrice, s1.direction)
         IN  IF PctGE(currentProfitPercent, cfg.extraProfitTarget)
             THEN [state |-> NoState, res |-> Verdict("extra_profit_achieved")]
             ELSE IF detectPriceReversal(s1, cfg, currentPrice)
             THEN [state |-> NoState, res |-> Verdict("price_reversal_detected")]
             ELSE [state |-> s1, res |-> NoVerdict]

updateAndCheckTakeProfit(st, cfg, t, currentPrice) ==
    IF ~st.isActive \/ ~cfg.enabled
    THEN [state |-> st, res |-> NoVerdict]
    ELSE IF t - st.activatedAt > cfg.maxWaitTime
    THEN [state |-> NoState, res |-> Threw]
    ELSE LET s1 == updateBestPrice(updatePriceHistory(st, cfg, currentPrice), currentPrice)
             currentProfitPercent ==
                 calculateProfitPercent(currentPrice, s1.entryPrice, s1.direction)
         IN  IF PctGE(currentProfitPercent,
                      PctAdd(s1.initialProfitPercent, cfg.extraProfitTarget))
             THEN [state |-> NoState, res |-> Verdict("extra_profit_achieved")]
             ELSE IF detectPriceReversal(s1, cfg, currentPrice)
             THEN [state |-> NoState, res |-> Verdict("price_reversal_detected")]
             ELSE [state |-> s1, res |-> NoVerdict]

forceExit(st) == NoState

\* a state report that always says Inactive
getStateInfoInactive(st) == [isActive |-> FALSE]

getStateInfo(st) == [isActive |-> st.isActive]


\* ------------------------------------------------------------------------
\* Configuration of the modelled engine (config.ts, process.env)
\* ------------------------------------------------------------------------
TradeAmount == 1

PriceTick == 100

LossLimit == 200

TrailingProfit == 200

ProfitLockTriggerUsd == 100

ProfitLockOffsetUsd == 100

FallbackPrice == 185

EntryPrice0 == 10000

Sma0 == 10100

MaxCloseSlippagePct == Pct(5, 100)

MarketPriceOffsetPct == Pct(1, 100)

ActivationPriceOffsetPct == Pct(1, 100)

GreedyExtraProfitTarget == Pct(2, 100)

GreedyReversalThreshold == Pct(1, 100)

GreedyMaxWaitTime == 1

\* ------------------------------------------------------------------------
\* Bounded environment
\* ------------------------------------------------------------------------
MaxOrderId == 2

\* order ids the exchange hands out in a run that follows stop replacements
MaxStopOrderId == 3

MaxTrades == 2

MaxEpoch == 1

Prices == {9800, 10200}

MarkPrices == {10000, 10800}

FlatMark == 10000

Kinds == {"MARKET", "STOP_MARKET", "TRAILING_STOP_MARKET", "LIMIT"}

OrderIds == 1..MaxOrderId

NoId == 0

None == [present |-> FALSE]

\* ------------------------------------------------------------------------
\* utils/strategy, utils/price, utils/math
\* ------------------------------------------------------------------------
FlatPosition ==
    [positionAmt |-> 0, entryPrice |-> 0, unrealizedProfit |-> 0, markPrice |-> 0, epoch |-> 0]

\* markPrice 0 stands for null
getPosition(snapshot) == IF snapshot.present THEN snapshot.position ELSE FlatPosition

calcStopLossPrice(entryPrice, qty, side, loss) ==
    IF side = "long" THEN entryPrice - (loss \div qty) ELSE entryPrice + (loss \div Abs(qty))

calcTrailingActivationPrice(entryPrice, qty, side, profit) ==
    IF side = "long" THEN entryPrice + (profit \div qty) ELSE entryPrice - (profit \div Abs(qty))

hasEntryPrice(position) == Abs(position.entryPrice) > 0

\* the ticks of the current run of deferrals and the log lines they pushed
MaxPendingTicks == 3

UpTo(n, max) == IF n < max THEN n + 1 ELSE max

\* a deferral that pushes its log line on every tick
deferRiskLoggingEachTick(s) ==
    [s EXCEPT !.entryPending = [ticks |-> UpTo(@.ticks, MaxPendingTicks),
                                logs |-> UpTo(@.logs, MaxPendingTicks)],
              !.entryPricePendingLogged = TRUE]

\* if (!hasEntryPrice) { if (!entryPricePendingLogged) { push; flag = true }; return }
deferRisk(s) ==
    [s EXCEPT !.entryPending = [ticks |-> UpTo(@.ticks, MaxPendingTicks),
                                logs |-> IF s.entryPricePendingLogged THEN @.logs
                                         ELSE UpTo(@.logs, MaxPendingTicks)],
              !.entryPricePendingLogged = TRUE]

\* this.entryPricePendingLogged = false: the run of deferrals is over
entryPriceSynced(s) ==
    [s EXCEPT !.entryPricePendingLogged = FALSE, !.entryPending = [ticks |-> 0, logs |-> 0]]

\* the comparison without the tolerance: the exact boundary is left out
shouldStopLossByPercentageStrict(position, currentPrice, pct) ==
    /\ Abs(position.positionAmt) > 0
    /\ Abs(position.entryPrice) > 0
    /\ LET pnl == calculateProfitPercent(currentPrice, position.entryPrice,
                      IF position.positionAmt > 0 THEN "long" ELSE "short")
       IN  pnl.n * pct.d < (0 - pct.n) * pnl.d

shouldTakeProfitByPercentageStrict(position, currentPrice, pct) ==
    /\ Abs(position.positionAmt) > 0
    /\ Abs(position.entryPrice) > 0
    /\ LET pnl == calculateProfitPercent(currentPrice, position.entryPrice,
                      IF position.positionAmt > 0 THEN "long" ELSE "short")
       IN  pnl.n * pct.d > pct.n * pnl.d

\* pnlPercentage < -pct + 1e-10: the tolerance admits the exact boundary
shouldStopLossByPercentage(position, currentPrice, pct) ==
    /\ Abs(position.positionAmt) > 0
    /\ hasEntryPrice(position)
    /\ LET pnl == calculateProfitPercent(currentPrice, position.entryPrice,
                      IF position.positionAmt > 0 THEN "long" ELSE "short")
       IN  pnl.n * pct.d <= (0 - pct.n) * pnl.d

\* pnlPercentage > pct - 1e-10: the tolerance admits the exact boundary
shouldTakeProfitByPercentage(position, currentPrice, pct) ==
    /\ Abs(position.positionAmt) > 0
    /\ hasEntryPrice(position)
    /\ PctGE(calculateProfitPercent(currentPrice, position.entryPrice,
                 IF position.positionAmt > 0 THEN "long" ELSE "short"), pct)

roundDownToTick(value, tick) == (value \div tick) * tick

\* mid of the best bid and ask when a depth snapshot exists, else the last price
getMidOrLast(depth, ticker) ==
    IF depth.present THEN (depth.bid + depth.ask) \div 2
    ELSE IF ticker.present THEN ticker.lastPrice
    ELSE 0

\* ------------------------------------------------------------------------
\* State of TrendEngine, of the exchange, and of the calls in flight
\* ------------------------------------------------------------------------
VARIABLES
    accountSnapshot, openOrders, depthSnapshot, tickerSnapshot, klineSnapshot,
    locks, timers, pending,
    timer, processing, lastPrice,
    lastPositionAmount, lastPositionEntryPrice, wasPositionOpen,
    totalTrades,
    cancelAllRequested, pendingCancelOrders, ordersSnapshotReady,
    entryPricePendingLogged,
    feeRecords,
    exOrders, exPos,
    frames, inflight,
    lastTick, exCloses, greedyExits, placeTrace, tickSkipped,
    engine, initialOrderSnapshotReady, initialOrderResetDone, lastPush,
    exIdLimit, priceTick,
    feeConfig, feeLedger, totalBalance, feeRead, feeClock,
    riskConfig, dynamicRisk, riskCheck, riskCall,
    pctCall,
    cancelAck,
    entryPending,
    manualOpenEvent,
    ownOpens,
    intervals,
    lifecycleCall,
    tradeLog,
    makerRiskCall,
    priceArrivals,
    syncCompare,
    earlyTick,
    feeOrderIds,
    analysisTimers,
    klineManager,
    analysisCall,
    enhancedFeeRecords

\* the answer to a cancel, as the step that receives it sees it
NoCancelAck == [done |-> FALSE, ids |-> {}, outcome |-> "none"]

NoEntryPending == [ticks |-> 0, logs |-> 0]

NoManualOpenEvent == [done |-> FALSE, own |-> FALSE]

NoLifecycleCall == [call |-> "none", was |-> FALSE]

NoSyncCompare == [done |-> FALSE, orders |-> {}, pending |-> <<>>, trend |-> {}, maker |-> {}]

NoMakerRiskCall ==
    [done |-> FALSE, positionAmt |-> 0, entryPrice |-> 0, bidPrice |-> 0, askPrice |-> 0,
     lossLimit |-> 0, profitTarget |-> 0, pnl |-> 0, stopLoss |-> FALSE,
     takeProfit |-> FALSE, branch |-> "none"]

NoTradeLog == [created |-> FALSE, maxEntries |-> 0, entries |-> <<>>, history |-> <<>>, last |-> "none"]

NoAnalysisCall ==
    [ran |-> FALSE, stopped |-> FALSE, submitted |-> FALSE, recorded |-> FALSE,
     overCap |-> FALSE]

MaxFrames == 2

FrameIds == 1..MaxFrames

IdleFrame == [pc |-> "idle"]

\* what a tick found when it evaluated take-profit (lines 853-878): whether the
\* manager was Active when asked for its verdict, the verdict, the plain
\* percentage check, and whether the take-profit branch was entered
NoTpCheck ==
    [evaluated |-> FALSE, active |-> FALSE, verdict |-> FALSE, standard |-> FALSE,
     taken |-> FALSE]

\* The clock is read only against the manager's activatedAt, so its origin is
\* moved to the present whenever the manager is not Active (Commit).
\* the engine state as one record, so that the synchronous stretch of code
\* between two awaits is a function from state to state; lastTick, placeTrace
\* and tickSkipped describe the step just taken and start every step cleared
Cur ==
    [accountSnapshot |-> accountSnapshot, openOrders |-> openOrders,
     depthSnapshot |-> depthSnapshot, tickerSnapshot |-> tickerSnapshot,
     klineSnapshot |-> klineSnapshot,
     locks |-> locks, timers |-> timers, pending |-> pending,
     timer |-> timer, processing |-> processing, lastPrice |-> lastPrice,
     lastPositionAmount |-> lastPositionAmount,
     lastPositionEntryPrice |-> lastPositionEntryPrice,
     wasPositionOpen |-> wasPositionOpen,
     totalTrades |-> totalTrades,
     cancelAllRequested |-> cancelAllRequested,
     pendingCancelOrders |-> pendingCancelOrders,
     ordersSnapshotReady |-> ordersSnapshotReady,
     entryPricePendingLogged |-> entryPricePendingLogged,
     greedyConfig |-> greedyConfig, greedyState |-> greedyState, now |-> now,
     greedyCall |-> greedyCall,
     feeRecords |-> feeRecords,
     exOrders |-> exOrders, exPos |-> exPos,
     frames |-> frames, inflight |-> inflight,
     lastTick |-> [ran |-> FALSE, breach |-> FALSE, guardAbort |-> FALSE,
                   closeIssued |-> FALSE, closed |-> FALSE, threw |-> FALSE,
                   greedyVerdict |-> "none", tpCheck |-> NoTpCheck,
                   cancelIds |-> {}, stopLog |-> <<>>, feeSkip |-> FALSE],
     exCloses |-> exCloses, greedyExits |-> greedyExits,
     placeTrace |-> {},
     tickSkipped |-> FALSE,
     engine |-> engine,
     initialOrderSnapshotReady |-> initialOrderSnapshotReady,
     initialOrderResetDone |-> initialOrderResetDone,
     lastPush |-> [done |-> FALSE, orders |-> {}, cleared |-> {}],
     exIdLimit |-> exIdLimit, priceTick |-> priceTick,
     feeConfig |-> feeConfig, feeLedger |-> feeLedger, totalBalance |-> totalBalance,
     feeRead |-> feeRead, feeClock |-> feeClock,
     riskConfig |-> riskConfig, dynamicRisk |-> dynamicRisk,
     riskCheck |-> [done |-> FALSE, price |-> 0, first |-> FALSE, recalculated |-> FALSE],
     riskCall |-> riskCall,
     pctCall |-> pctCall,
     cancelAck |-> NoCancelAck,
     entryPending |-> entryPending,
     manualOpenEvent |-> NoManualOpenEvent,
     ownOpens |-> ownOpens,
     intervals |-> intervals,
     lifecycleCall |-> NoLifecycleCall,
     tradeLog |-> tradeLog,
     makerRiskCall |-> NoMakerRiskCall,
     priceArrivals |-> priceArrivals,
     syncCompare |-> NoSyncCompare,
     earlyTick |-> FALSE,
     feeOrderIds |-> feeOrderIds,
     analysisTimers |-> analysisTimers,
     klineManager |-> klineManager,
     analysisCall |-> NoAnalysisCall,
     enhancedFeeRecords |-> enhancedFeeRecords]

Commit(s) ==
    /\ accountSnapshot' = s.accountSnapshot /\ openOrders' = s.openOrders
    /\ depthSnapshot' = s.depthSnapshot /\ tickerSnapshot' = s.tickerSnapshot
    /\ klineSnapshot' = s.klineSnapshot
    /\ locks' = s.locks /\ timers' = s.timers /\ pending' = s.pending
    /\ timer' = s.timer /\ processing' = s.processing /\ lastPrice' = s.lastPrice
    /\ lastPositionAmount' = s.lastPositionAmount
    /\ lastPositionEntryPrice' = s.lastPositionEntryPrice
    /\ wasPositionOpen' = s.wasPositionOpen
    /\ totalTrades' = s.totalTrades
    /\ cancelAllRequested' = s.cancelAllRequested
    /\ pendingCancelOrders' = s.pendingCancelOrders
    /\ ordersSnapshotReady' = s.ordersSnapshotReady
    /\ entryPricePendingLogged' = s.entryPricePendingLogged
    /\ greedyConfig' = s.greedyConfig /\ greedyState' = s.greedyState
    /\ now' = IF s.greedyState.isActive THEN s.now ELSE 0
    /\ greedyCall' = s.greedyCall
    /\ feeRecords' = s.feeRecords
    /\ exOrders' = s.exOrders /\ exPos' = s.exPos
    /\ frames' = s.frames /\ inflight' = s.inflight
    /\ lastTick' = s.lastTick /\ exCloses' = s.exCloses /\ greedyExits' = s.greedyExits
    /\ placeTrace' = s.placeTrace /\ tickSkipped' = s.tickSkipped
    /\ engine' = s.engine
    /\ initialOrderSnapshotReady' = s.initialOrderSnapshotReady
    /\ initialOrderResetDone' = s.initialOrderResetDone
    /\ lastPush' = s.lastPush
    /\ exIdLimit' = s.exIdLimit
    /\ priceTick' = s.priceTick
    /\ feeConfig' = s.feeConfig
    /\ feeLedger' = s.feeLedger
    /\ totalBalance' = s.totalBalance
    /\ feeRead' = s.feeRead
    /\ feeClock' = s.feeClock
    /\ riskConfig' = s.riskConfig
    /\ dynamicRisk' = s.dynamicRisk
    /\ riskCheck' = s.riskCheck
    /\ riskCall' = s.riskCall
    /\ pctCall' = s.pctCall
    /\ cancelAck' = s.cancelAck
    /\ entryPending' = s.entryPending
    /\ manualOpenEvent' = s.manualOpenEvent
    /\ ownOpens' = s.ownOpens
    /\ intervals' = s.intervals
    /\ lifecycleCall' = s.lifecycleCall
    /\ tradeLog' = s.tradeLog
    /\ makerRiskCall' = s.makerRiskCall
    /\ priceArrivals' = s.priceArrivals
    /\ syncCompare' = s.syncCompare
    /\ earlyTick' = s.earlyTick
    /\ feeOrderIds' = s.feeOrderIds
    /\ analysisTimers' = s.analysisTimers
    /\ klineManager' = s.klineManager
    /\ analysisCall' = s.analysisCall
    /\ enhancedFeeRecords' = s.enhancedFeeRecords

vars ==
    <<accountSnapshot, openOrders, depthSnapshot, tickerSnapshot, klineSnapshot,
      locks, timers, pending, timer, processing, lastPrice,
      lastPositionAmount, lastPositionEntryPrice, wasPositionOpen,
      totalTrades, cancelAllRequested, pendingCancelOrders,
      ordersSnapshotReady, entryPricePendingLogged,
      greedyConfig, greedyState, now, greedyCall,
      feeRecords, exOrders, exPos, frames, inflight, lastTick, exCloses, greedyExits, placeTrace,
      tickSkipped, engine, initialOrderSnapshotReady, initialOrderResetDone, lastPush,
      exIdLimit, priceTick, feeConfig, feeLedger, totalBalance, feeRead,
      feeClock, riskConfig, dynamicRisk, riskCheck, riskCall,
      pctCall,
      cancelAck,
      entryPending,
      manualOpenEvent,
      ownOpens,
      intervals,
      lifecycleCall,
      tradeLog,
      makerRiskCall,
      priceArrivals,
      syncCompare,
      earlyTick,
      feeOrderIds,
      analysisTimers,
      klineManager,
      analysisCall,
      enhancedFeeRecords>>

\* ------------------------------------------------------------------------
\* Order coordinator (core/order-coordinator): lock / pending / timer maps
\* ------------------------------------------------------------------------
isOperating(lk, kind) == lk[kind]

\* lock the kind and arm its fallback timer
lockOperating(s, kind) ==
    [s EXCEPT !.locks = [@ EXCEPT ![kind] = TRUE],
              !.timers = [@ EXCEPT ![kind] = TRUE]]

unlockOperating(s, kind) ==
    [s EXCEPT !.locks = [@ EXCEPT ![kind] = FALSE],
              !.pending = [@ EXCEPT ![kind] = NoId],
              !.timers = [@ EXCEPT ![kind] = FALSE]]

\* place(kind): a no-op while the kind is locked; otherwise lock, arm the
\* timer and issue the exchange call, which stays in flight until answered
place(s, kind, call) ==
    IF isOperating(s.locks, kind)
    THEN s
    ELSE [lockOperating(s, kind) EXCEPT !.inflight = @ \cup {call}]

\* the engine's call of place, with what the call did added to placeTrace:
\* whether the lock was held when it was made, whether it changed the lock,
\* pending or timer maps, whether it issued an exchange call, and whether the
\* profit-lock pass of the same tick had already issued a stop placement
tracedPlace(s, kind, call) ==
    LET r == place(s, kind, call)
        issued == r.inflight # s.inflight
    IN  [r EXCEPT !.placeTrace = @ \cup
                      {[kind |-> kind, by |-> call.by,
                        held |-> s.locks[kind],
                        changed |-> \/ r.locks # s.locks \/ r.pending # s.pending
                                    \/ r.timers # s.timers,
                        issued |-> issued,
                        second |-> kind = "STOP_MARKET" /\ s.frames[call.f].lockPlaced]},
                  !.frames[call.f].lockPlaced =
                      @ \/ (issued /\ kind = "STOP_MARKET" /\ call.by = "profitLock")]

\* unlockOperating for each kind of a set, as the push handlers' forEach does
RECURSIVE unlockEach(_, _)

unlockEach(s, kinds) ==
    IF kinds = {} THEN s
    ELSE LET k == CHOOSE x \in kinds : TRUE
         IN  unlockEach(unlockOperating(s, k), kinds \ {k})

\* the answer to a placement: success stores the exchange id as the pending
\* marker and keeps the lock until reconciliation; an error releases the lock
placeAck(s, kind, ok, id) ==
    IF ok THEN [s EXCEPT !.pending = [@ EXCEPT ![kind] = id]]
    ELSE unlockOperating(s, kind)

\* ------------------------------------------------------------------------
\* FeeMonitor (utils/fee-monitor.ts). Time is counted in half hours; a fee
\* percentage is the rational fee * 100 / balance
\* ------------------------------------------------------------------------
HourMs == 2

DayMs == 24 * HourMs

MaxHourlyFeePct == Pct(1, 1)

MaxDailyFeePct == Pct(2, 1)

FeeConfig(enable, hourly, daily) ==
    [enableFeeProtection |-> enable, maxHourlyFeePct |-> hourly, maxDailyFeePct |-> daily]

\* a > b for rationals with positive denominators
PctGT(a, b) == a.n * b.d > b.n * a.d

RECURSIVE SumFees(_)

SumFees(records) ==
    IF records = <<>> THEN 0 ELSE Head(records).fee + SumFees(Tail(records))

\* cleanOldRecords: lines 177-180
cleanOldRecords(records, t) ==
    SelectSeq(records, LAMBDA r : r.timestamp > t - 2 * DayMs)

\* recordTrade on the ledger itself: lines 71-92
recordFee(records, t, fee) ==
    cleanOldRecords(Append(records, [timestamp |-> t, fee |-> fee]), t)

\* a getFeeSummary that keeps the windows of the moment of the last record
getFeeSummaryAtRecord(records, t, balance) ==
    LET at == IF records = <<>> THEN t ELSE records[Len(records)].timestamp
        dailyFee == SumFees(SelectSeq(records, LAMBDA r : r.timestamp > at - DayMs))
        hourlyFee == SumFees(SelectSeq(records, LAMBDA r : r.timestamp > at - HourMs))
    IN  [totalFee |-> SumFees(records), tradeCount |-> Len(records),
         dailyFee |-> dailyFee, hourlyFee |-> hourlyFee,
         dailyFeePercent |-> IF balance > 0 THEN Pct(dailyFee * 100, balance) ELSE Pct(0, 1),
         hourlyFeePercent |-> IF balance > 0 THEN Pct(hourlyFee * 100, balance) ELSE Pct(0, 1)]

\* getFeeSummary: lines 115-139
getFeeSummary(records, t, balance) ==
    LET oneDayAgo == t - DayMs
        oneHourAgo == t - HourMs
        dailyFee == SumFees(SelectSeq(records, LAMBDA r : r.timestamp > oneDayAgo))
        hourlyFee == SumFees(SelectSeq(records, LAMBDA r : r.timestamp > oneHourAgo))
    IN  [totalFee |-> SumFees(records), tradeCount |-> Len(records),
         dailyFee |-> dailyFee, hourlyFee |-> hourlyFee,
         dailyFeePercent |-> IF balance > 0 THEN Pct(dailyFee * 100, balance) ELSE Pct(0, 1),
         hourlyFeePercent |-> IF balance > 0 THEN Pct(hourlyFee * 100, balance) ELSE Pct(0, 1)]

\* shouldStopTrading: lines 141-146
shouldStopTrading(cfg, records, t, balance) ==
    LET summary == getFeeSummary(records, t, balance)
    IN  \/ PctGT(summary.dailyFeePercent, cfg.maxDailyFeePct)
        \/ PctGT(summary.hourlyFeePercent, cfg.maxHourlyFeePct)

\* ------------------------------------------------------------------------
\* FeeMonitor as TrendEngine uses it: the engine's ledger is kept as its
\* number of records, saturating at MaxFeeRecords; every record carries the
\* same fee and the engine's runs stay within one hour, so both windows
\* hold the whole ledger
\* ------------------------------------------------------------------------
MaxFeeRecords == 1

FeePerTrade == 6

Balance0 == 1000

recordTrade(n, k) == Min2(n + k, MaxFeeRecords)

\* the orderId fields of the records the order-stream handler adds, in the
\* order of their recording, the first MaxFeeIds of them
MaxFeeIds == 2

RECURSIVE recordFilled(_, _)
recordFilled(ids, filled) ==
    IF filled = {} THEN ids
    ELSE LET id == CHOOSE i \in filled : \A j \in filled : i <= j
         IN  recordFilled(IF Len(ids) < MaxFeeIds THEN Append(ids, ToString(id)) ELSE ids,
                          filled \ {id})

LedgerOf(n) == [i \in 1..n |-> [timestamp |-> 0, fee |-> FeePerTrade]]

\* a submitMarketOrder that never asks the fee monitor
feeMonitorNeverStops(s) == FALSE

\* this.feeMonitor.shouldStopTrading() as the engine calls it: line 629
feeMonitorShouldStop(s) ==
    shouldStopTrading(s.feeConfig, LedgerOf(s.feeRecords), 0, Balance0)

\* ------------------------------------------------------------------------
\* DynamicRiskManager (utils/dynamic-risk) and the engine's use of it.
\* Amounts and prices are whole hundredths of a dollar, so that rounding an
\* amount to two decimals is rounding n / d to a whole number.
\* ------------------------------------------------------------------------
\* Math.round of n / d >= 0: the nearest whole number, a half goes up
MathRound(n, d) == (2 * n + d) \div (2 * d)

roundToTwoDecimals(n, d) == MathRound(n, d)

DynamicRiskConfig(baseAmount, riskPercentage, profitTarget, profitLockRatio,
                  protectionOffset, recalcThreshold) ==
    [baseAmount |-> baseAmount, riskPercentage |-> riskPercentage,
     profitTarget |-> profitTarget, profitLockRatio |-> profitLockRatio,
     protectionOffset |-> protectionOffset, recalcThreshold |-> recalcThreshold]

\* parameters computed from the amount at the fallback price, whatever the
\* price handed over
calculateRiskParamsAtFallback(cfg, currentPrice) ==
    LET positionValue == cfg.baseAmount * FallbackPrice
    IN  [lossLimit |-> roundToTwoDecimals(positionValue * cfg.riskPercentage.n,
                                          cfg.riskPercentage.d),
         trailingProfit |-> roundToTwoDecimals(positionValue * cfg.profitTarget.n,
                                               cfg.profitTarget.d),
         profitLockTrigger |->
             roundToTwoDecimals(positionValue * cfg.profitTarget.n * cfg.profitLockRatio.n,
                                cfg.profitTarget.d * cfg.profitLockRatio.d),
         profitLockOffset |-> roundToTwoDecimals(positionValue * cfg.protectionOffset.n,
                                                 cfg.protectionOffset.d)]

calculateRiskParams(cfg, currentPrice) ==
    LET positionValue == cfg.baseAmount * currentPrice
    IN  [lossLimit |-> roundToTwoDecimals(positionValue * cfg.riskPercentage.n,
                                          cfg.riskPercentage.d),
         trailingProfit |-> roundToTwoDecimals(positionValue * cfg.profitTarget.n,
                                               cfg.profitTarget.d),
         profitLockTrigger |->
             roundToTwoDecimals(positionValue * cfg.profitTarget.n * cfg.profitLockRatio.n,
                                cfg.profitTarget.d * cfg.profitLockRatio.d),
         profitLockOffset |-> roundToTwoDecimals(positionValue * cfg.protectionOffset.n,
                                                 cfg.protectionOffset.d)]

\* a check that asks for a recompute at every price
shouldRecalculateAlways(currentPrice, lastPrice_, threshold) == TRUE

\* lastPrice_ 0 stands for a missing or non-positive last price
shouldRecalculate(currentPrice, lastPrice_, threshold) ==
    IF lastPrice_ <= 0 THEN TRUE
    ELSE Abs(currentPrice - lastPrice_) * threshold.d >= threshold.n * lastPrice_

\* the engine's risk configuration: ENABLE_DYNAMIC_RISK, DYNAMIC_RISK_THRESHOLD,
\* the manager's configuration as the constructor fills it (lines 229-242),
\* RISK_PERCENTAGE and PROFIT_TARGET_PERCENTAGE as the percentage getters
\* read them, and MIN_POSITION_HOLD_TIME_MS
RiskConfig(enable, threshold) ==
    [enableDynamicRisk |-> enable, dynamicRiskThreshold |-> threshold,
     manager |-> DynamicRiskConfig(TradeAmount, Pct(2, 100), Pct(2, 100), Pct(3, 4),
                                   Pct(1, 100), threshold),
     riskPercentageEnv |-> Pct(2, 100), profitTargetEnv |-> Pct(2, 100),
     minHoldTimeMs |-> 0]

StaticRisk == RiskConfig(FALSE, Pct(5, 100))

\* dynamicLossLimit, dynamicTrailingProfit, dynamicProfitLockTrigger,
\* dynamicProfitLockOffset and lastRiskUpdatePrice, all null as constructed
NoDynamicRisk ==
    [isNull |-> TRUE, dynamicLossLimit |-> 0, dynamicTrailingProfit |-> 0,
     dynamicProfitLockTrigger |-> 0, dynamicProfitLockOffset |-> 0,
     lastRiskUpdatePrice |-> 0]

\* what the step's call of updateDynamicRiskIfNeeded did, if it got past the
\* manager check
NoRiskCheck == [done |-> FALSE, price |-> 0, first |-> FALSE, recalculated |-> FALSE]

\* a call of calculateRiskParams made from outside the engine: the price and
\* what the manager returned for it and for twice the price
NoPctCall ==
    [done |-> FALSE, position |-> FlatPosition, price |-> 0,
     stopLossPercentage |-> Pct(0, 1), takeProfitPercentage |-> Pct(0, 1),
     shouldStop |-> FALSE, shouldTakeProfit |-> FALSE]

NoRiskCall == [done |-> FALSE, price |-> 0, params |-> <<>>, doubled |-> <<>>]

NoRisk == [lossLimit |-> 0, trailingProfit |-> 0, profitLockTrigger |-> 0,
           profitLockOffset |-> 0]

\* updateDynamicRiskIfNeeded: lines 1275-1316
updateDynamicRiskIfNeeded(s, currentPrice) ==
    IF ~s.riskConfig.enableDynamicRisk THEN s
    ELSE LET isFirstCalculation == s.dynamicRisk.isNull
             recalc == \/ isFirstCalculation
                       \/ shouldRecalculate(currentPrice, s.dynamicRisk.lastRiskUpdatePrice,
                                            s.riskConfig.dynamicRiskThreshold)
             newParams == calculateRiskParams(s.riskConfig.manager, currentPrice)
             check == [done |-> TRUE, price |-> currentPrice,
                       first |-> isFirstCalculation, recalculated |-> recalc]
         IN  IF ~recalc THEN [s EXCEPT !.riskCheck = check]
             ELSE [s EXCEPT !.riskCheck = check,
                            !.dynamicRisk =
                                [isNull |-> FALSE,
                                 dynamicLossLimit |-> newParams.lossLimit,
                                 dynamicTrailingProfit |-> newParams.trailingProfit,
                                 dynamicProfitLockTrigger |-> newParams.profitLockTrigger,
                                 dynamicProfitLockOffset |-> newParams.profitLockOffset,
                                 lastRiskUpdatePrice |-> currentPrice]]

\* canPlaceNewOrder: without a manager there is no wait; with one, the time
\* since the last open and the last close is compared with minHoldTimeMs,
\* which is 0 in every configuration of this model, so that both waits are
\* over whenever it is asked
canPlaceNewOrder(s) ==
    \/ ~s.riskConfig.enableDynamicRisk
    \/ s.riskConfig.minHoldTimeMs = 0

\* ------------------------------------------------------------------------
\* TrendEngine: the tick, as the synchronous stretches between its awaits.
\* A frame holds the locals of one running tick and the await it is parked at.
\* ------------------------------------------------------------------------
Fr(s, f) == s.frames[f]

Await(s, f, pcNext) == [s EXCEPT !.frames[f].pc = pcNext]

Direction(position) == IF position.positionAmt > 0 THEN "long" ELSE "short"

StopSide(position) == IF position.positionAmt > 0 THEN "SELL" ELSE "BUY"

\* pnl of handlePositionManagement, at the ticker price read by the tick
FramePnl(fr) ==
    (IF Direction(fr.position) = "long" THEN fr.price - fr.position.entryPrice
     ELSE fr.position.entryPrice - fr.price) * Abs(fr.position.positionAmt)

\* the four getters: the dynamic parameter when dynamic risk is enabled and
\* the parameter has been computed, else the configured amount
getCurrentLossLimit(s) ==
    IF s.riskConfig.enableDynamicRisk /\ ~s.dynamicRisk.isNull
    THEN s.dynamicRisk.dynamicLossLimit ELSE LossLimit

getCurrentTrailingProfit(s) ==
    IF s.riskConfig.enableDynamicRisk /\ ~s.dynamicRisk.isNull
    THEN s.dynamicRisk.dynamicTrailingProfit ELSE TrailingProfit

getCurrentProfitLockTrigger(s) ==
    IF s.riskConfig.enableDynamicRisk /\ ~s.dynamicRisk.isNull
    THEN s.dynamicRisk.dynamicProfitLockTrigger ELSE ProfitLockTriggerUsd

getCurrentProfitLockOffset(s) ==
    IF s.riskConfig.enableDynamicRisk /\ ~s.dynamicRisk.isNull
    THEN s.dynamicRisk.dynamicProfitLockOffset ELSE ProfitLockOffsetUsd

\* the amounts handlePositionManagement reads before its first await
\* (lines 706-797), kept with the locals of the tick
CurrentRisk(s) ==
    [lossLimit |-> getCurrentLossLimit(s), trailingProfit |-> getCurrentTrailingProfit(s),
     profitLockTrigger |-> getCurrentProfitLockTrigger(s),
     profitLockOffset |-> getCurrentProfitLockOffset(s)]

\* dynamic risk: the percentage of the environment; static risk: the
\* percentage is derived from the fixed amount and lastPrice
getCurrentStopLossPercentage(s) ==
    IF s.riskConfig.enableDynamicRisk THEN s.riskConfig.riskPercentageEnv
    ELSE Pct(LossLimit, TradeAmount * (IF s.lastPrice # 0 THEN s.lastPrice ELSE FallbackPrice))

getCurrentTakeProfitPercentage(s) ==
    IF s.riskConfig.enableDynamicRisk THEN s.riskConfig.profitTargetEnv
    ELSE Pct(TrailingProfit, TradeAmount * (IF s.lastPrice # 0 THEN s.lastPrice ELSE FallbackPrice))

getReferencePrice(s) ==
    LET m == getMidOrLast(s.depthSnapshot, s.tickerSnapshot)
    IN  IF m # 0 THEN m ELSE s.lastPrice

\* value * pct for a percentage of whole hundredths and a price of whole ticks
PctOf(value, pct) == (value * pct.n) \div pct.d

\* a refinement that takes the looser of the two prices
RegularStopPriceLoosest(fr) ==
    LET raw == calcStopLossPrice(fr.position.entryPrice, Abs(fr.position.positionAmt),
                                 Direction(fr.position), fr.risk.lossLimit)
    IN  IF Direction(fr.position) = "long"
        THEN Min2(fr.bid1 - PctOf(fr.bid1, MarketPriceOffsetPct), raw)
        ELSE Max2(fr.ask1 + PctOf(fr.ask1, MarketPriceOffsetPct), raw)

\* stop price of the regular pass, refined toward the best bid / ask
RegularStopPrice(fr) ==
    LET raw == calcStopLossPrice(fr.position.entryPrice, Abs(fr.position.positionAmt),
                                 Direction(fr.position), fr.risk.lossLimit)
    IN  IF Direction(fr.position) = "long"
        THEN Max2(fr.bid1 - PctOf(fr.bid1, MarketPriceOffsetPct), raw)
        ELSE Min2(fr.ask1 + PctOf(fr.ask1, MarketPriceOffsetPct), raw)

profitLockStopPrice(fr) ==
    IF Direction(fr.position) = "long"
    THEN roundDownToTick(fr.position.entryPrice
             + (fr.risk.profitLockOffset \div Abs(fr.position.positionAmt)), priceTick)
    ELSE roundDownToTick(fr.position.entryPrice
             - (fr.risk.profitLockOffset \div Abs(fr.position.positionAmt)), priceTick)

optimizedProfitLockStopPrice(fr) ==
    LET isInProfit ==
            \/ Direction(fr.position) = "long" /\ fr.price > fr.position.entryPrice
            \/ Direction(fr.position) = "short" /\ fr.price < fr.position.entryPrice
    IN  IF ~isInProfit THEN profitLockStopPrice(fr)
        ELSE IF Direction(fr.position) = "long"
        THEN Max2(fr.bid1 - PctOf(fr.bid1, MarketPriceOffsetPct), profitLockStopPrice(fr))
        ELSE Min2(fr.ask1 + PctOf(fr.ask1, MarketPriceOffsetPct), profitLockStopPrice(fr))

optimizedActivationPrice(fr) ==
    LET act == calcTrailingActivationPrice(fr.position.entryPrice,
                   Abs(fr.position.positionAmt), Direction(fr.position),
                   fr.risk.trailingProfit)
        off == PctOf(fr.price, ActivationPriceOffsetPct)
    IN  IF Direction(fr.position) = "long" THEN Min2(fr.price + off, act)
        ELSE Max2(fr.price - off, act)

\* the record kept of a finished tick
TickRecord(fr, closed, threw) ==
    [ran |-> TRUE, breach |-> fr.breach, guardAbort |-> fr.guardAbort,
     closeIssued |-> fr.closeIssued, closed |-> closed, threw |-> threw,
     greedyVerdict |-> fr.greedyVerdict, tpCheck |-> fr.tpCheck, cancelIds |-> fr.ids,
     stopLog |-> fr.stopLog, feeSkip |-> fr.feeSkip]

\* end of tick(): count the close, remember the price, clear the flag
TickEnd(s, f, closed) ==
    [s EXCEPT !.totalTrades = IF closed THEN @ + 1 ELSE @,
              !.lastPrice = Fr(s, f).price,
              !.processing = FALSE,
              !.lastTick = TickRecord(Fr(s, f), closed, FALSE),
              !.frames[f] = IdleFrame]

\* a tick() with a catch and no finally
TickCatchFlagKept(s, f) ==
    [s EXCEPT !.lastTick = TickRecord(Fr(s, f), FALSE, TRUE),
              !.frames[f] = IdleFrame]

\* an exception reaching tick()'s catch: logged, the flag cleared by finally
TickCatch(s, f) ==
    [s EXCEPT !.processing = FALSE,
              !.lastTick = TickRecord(Fr(s, f), FALSE, TRUE),
              !.frames[f] = IdleFrame]

\* the greedy manager leaves the Active state: remember for which position
GreedyLeave(s) ==
    IF s.greedyState.isActive
    THEN [s EXCEPT !.greedyState = NoState,
                   !.greedyExits.exited = @ \cup {s.greedyExits.activeEpoch},
                   !.greedyExits.activeEpoch = 0,
                   !.greedyExits.last = "forced"]
    ELSE s

\* a guard that lets every close through
SlippageGuardOff(s, fr) == FALSE

\* the slippage guard written out before both market closes
SlippageGuardTrips(s, fr) ==
    LET mark == getPosition(s.accountSnapshot).markPrice
        closeSidePrice == IF Direction(fr.position) = "long"
                          THEN s.depthSnapshot.bid ELSE s.depthSnapshot.ask
    IN  /\ mark > 0
        /\ s.depthSnapshot.present
        /\ Abs(closeSidePrice - mark) * MaxCloseSlippagePct.d > MaxCloseSlippagePct.n * mark

CloseCall(f, fr, by) ==
    [f |-> f, op |-> "place", kind |-> "MARKET", by |-> by,
     side |-> StopSide(fr.position), qty |-> Abs(fr.position.positionAmt),
     reduceOnly |-> TRUE, price |-> 0, stopPrice |-> 0, ids |-> {}]

CancelCall(f, ids, by) ==
    [f |-> f, op |-> "cancel", kind |-> "CANCEL", by |-> by,
     side |-> "NONE", qty |-> 0, reduceOnly |-> FALSE, price |-> 0, stopPrice |-> 0, ids |-> ids]

OrderIdsOf(orders) == {o.orderId : o \in orders}

\* --- percentage stop-loss: lines 974-1052 ------------------------------
SLClose(s, f) ==
    IF SlippageGuardTrips(s, Fr(s, f))
    THEN TickEnd([s EXCEPT !.frames[f].guardAbort = TRUE], f, FALSE)
    ELSE IF isOperating(s.locks, "MARKET")
    THEN TickEnd(tracedPlace(s, "MARKET", CloseCall(f, Fr(s, f), "slClose")), f, TRUE)
    ELSE Await([tracedPlace(s, "MARKET", CloseCall(f, Fr(s, f), "slClose"))
                   EXCEPT !.frames[f].closeIssued = TRUE], f, "slClose")

\* the inner catch swallows every failure and the method still returns closed: true
SLAfterClose(s, f, outcome) == TickEnd(s, f, TRUE)

SLAfterCancel(s, f, outcome) ==
    LET ids == Fr(s, f).ids
    IN  IF outcome = "ok"
        THEN SLClose([s EXCEPT !.pendingCancelOrders = @ \cup ids], f)
        ELSE IF outcome = "unknown"
        THEN SLClose([s EXCEPT !.pendingCancelOrders = @ \ ids,
                               !.openOrders = {o \in s.openOrders : o.orderId \notin ids}], f)
        ELSE TickEnd(s, f, TRUE)

SLStart(s, f) ==
    IF Fr(s, f).breach
    THEN IF s.openOrders # {}
         THEN Await([s EXCEPT !.frames[f].ids = OrderIdsOf(s.openOrders),
                              !.inflight = @ \cup {CancelCall(f, OrderIdsOf(s.openOrders), "slCancel")}],
                    f, "slCancel")
         ELSE SLClose(s, f)
    ELSE TickEnd(s, f, FALSE)

\* --- take-profit: lines 879-972 ----------------------------------------
TPClose(s, f) ==
    IF SlippageGuardTrips(s, Fr(s, f))
    THEN TickEnd([s EXCEPT !.frames[f].guardAbort = TRUE], f, FALSE)
    ELSE IF isOperating(s.locks, "MARKET")
    THEN TickEnd(GreedyLeave(tracedPlace(s, "MARKET", CloseCall(f, Fr(s, f), "tpClose"))), f, TRUE)
    ELSE Await([tracedPlace(s, "MARKET", CloseCall(f, Fr(s, f), "tpClose"))
                   EXCEPT !.frames[f].closeIssued = TRUE], f, "tpClose")

TPAfterClose(s, f, outcome) ==
    IF outcome = "thrown" THEN TickEnd(GreedyLeave(s), f, FALSE)
    ELSE TickEnd(GreedyLeave(s), f, TRUE)

TPAfterCancel(s, f, outcome) ==
    LET ids == Fr(s, f).ids
    IN  IF outcome = "ok"
        THEN TPClose([s EXCEPT !.pendingCancelOrders = @ \cup ids], f)
        ELSE IF outcome = "unknown"
        THEN TPClose([s EXCEPT !.pendingCancelOrders = @ \ ids,
                               !.openOrders = {o \in s.openOrders : o.orderId \notin ids}], f)
        ELSE TickEnd(GreedyLeave(s), f, FALSE)

TPStart(s, f) ==
    IF s.openOrders # {}
    THEN Await([s EXCEPT !.frames[f].ids = OrderIdsOf(s.openOrders),
                         !.inflight = @ \cup {CancelCall(f, OrderIdsOf(s.openOrders), "tpCancel")}],
               f, "tpCancel")
    ELSE TPClose(s, f)

\* --- greedy take-profit and the two percentage checks: lines 853-878 ----
GreedyCallRecord(op, pre, price, t, res) ==
    [op |-> op, pre |-> pre, price |-> price, t |-> t, res |-> res]

GreedyEval(s, f) ==
    LET fr == Fr(s, f)
        currentPrice == getReferencePrice(s)
        base == getCurrentTakeProfitPercentage(s)
        act == shouldActivateGreedy(s.greedyState, s.greedyConfig, s.now, currentPrice,
                                    fr.position.entryPrice, Direction(fr.position), base)
        upd == updateAndCheckTakeProfit(act.state, s.greedyConfig, s.now, currentPrice)
        standardTakeProfit == shouldTakeProfitByPercentage(fr.position, currentPrice, base)
        shouldTakeProfit ==
            upd.res.shouldTakeProfit \/ (~getStateInfo(upd.state).isActive /\ standardTakeProfit)
        left == act.state.isActive /\ ~upd.state.isActive
        exits0 == IF act.ret
                  THEN [s.greedyExits EXCEPT !.activeEpoch = fr.position.epoch]
                  ELSE s.greedyExits
        exits1 == IF left
                  THEN [exits0 EXCEPT !.exited = @ \cup {exits0.activeEpoch}, !.activeEpoch = 0,
                                      !.last = IF upd.res.threw THEN "timeout"
                                               ELSE upd.res.reason]
                  ELSE exits0
        s1 == [s EXCEPT !.greedyState = upd.state,
                        !.greedyExits = exits1,
                        !.frames[f].greedyVerdict = upd.res.reason,
                        !.frames[f].tpCheck =
                            [evaluated |-> ~upd.res.threw,
                             active |-> act.state.isActive,
                             verdict |-> upd.res.shouldTakeProfit,
                             standard |-> standardTakeProfit,
                             taken |-> ~upd.res.threw /\ shouldTakeProfit],
                        !.frames[f].breach =
                            shouldStopLossByPercentage(fr.position, currentPrice,
                                                       getCurrentStopLossPercentage(s))]
    IN  IF currentPrice = 0 THEN TickEnd(s, f, FALSE)
        ELSE IF upd.res.threw THEN TickCatch(s1, f)
        ELSE IF shouldTakeProfit THEN TPStart(s1, f)
        ELSE SLStart(s1, f)

\* --- trailing stop: lines 845-851 --------------------------------------
StopCall(f, fr, kind, price, by) ==
    [f |-> f, op |-> "place", kind |-> kind, by |-> by,
     side |-> StopSide(fr.position), qty |-> Abs(fr.position.positionAmt),
     reduceOnly |-> TRUE, price |-> 0, stopPrice |-> roundDownToTick(price, priceTick), ids |-> {}]

\* place a resting order of the kind and park at pcNext, or, when the kind
\* is locked, go on at once with what follows (Cont)
Trailing(s, f) ==
    IF Fr(s, f).currentTrailing \/ isOperating(s.locks, "TRAILING_STOP_MARKET")
    THEN GreedyEval(IF Fr(s, f).currentTrailing THEN s
                    ELSE tracedPlace(s, "TRAILING_STOP_MARKET",
                               StopCall(f, Fr(s, f), "TRAILING_STOP_MARKET",
                                        optimizedActivationPrice(Fr(s, f)), "trail")), f)
    ELSE Await(tracedPlace(s, "TRAILING_STOP_MARKET",
                     StopCall(f, Fr(s, f), "TRAILING_STOP_MARKET",
                              optimizedActivationPrice(Fr(s, f)), "trail")), f, "trail")

AfterTrail(s, f, outcome) == GreedyEval(s, f)

\* what follows a stop placement or replacement of the given pass
RECURSIVE AfterPass(_, _)

\* tryPlaceStopLoss: lines 1057-1086
tryPlaceStopLoss(s, f, stopPrice) ==
    LET call == StopCall(f, Fr(s, f), "STOP_MARKET", stopPrice, Fr(s, f).pass)
    IN  IF isOperating(s.locks, "STOP_MARKET")
        THEN AfterPass(tracedPlace(s, "STOP_MARKET", call), f)
        ELSE Await(tracedPlace(s, "STOP_MARKET", call), f, "stopPlace")

\* the early return of tryReplaceStop (lines 1094-1101), added to placeTrace
ReplaceSkipped(s) ==
    [kind |-> "STOP_MARKET", by |-> "replaceSkipped", held |-> s.locks["STOP_MARKET"],
     changed |-> FALSE, issued |-> FALSE, second |-> FALSE]

\* tryReplaceStop: lines 1088-1175
tryReplaceStop(s, f, nextStopPrice) ==
    LET fr == Fr(s, f)
        side == StopSide(fr.position)
        invalidForSide == \/ side = "SELL" /\ nextStopPrice >= fr.price
                          \/ side = "BUY" /\ nextStopPrice <= fr.price
    IN  IF invalidForSide
        THEN AfterPass([s EXCEPT !.placeTrace = @ \cup {ReplaceSkipped(s)}], f)
        ELSE Await([s EXCEPT !.frames[f].nextStop = nextStopPrice,
                             !.inflight = @ \cup {CancelCall(f, {fr.currentStop.orderId},
                                                             "stopCancel")}],
                   f, "stopCancel")

ReplaceAfterCancel(s, f, outcome) ==
    LET fr == Fr(s, f)
        s1 == IF outcome = "unknown"
              THEN [s EXCEPT !.openOrders = {o \in s.openOrders : o.orderId # fr.currentStop.orderId}]
              ELSE s
        call == StopCall(f, fr, "STOP_MARKET", fr.nextStop, "stopReplace")
    IN  IF isOperating(s1.locks, "STOP_MARKET")
        THEN AfterPass(tracedPlace(s1, "STOP_MARKET", call), f)
        ELSE Await(tracedPlace(s1, "STOP_MARKET", call), f, "stopReplace")

\* tradeLog, as far as tryReplaceStop writes it in the tick: stopLog holds
\* its entries "moved" (line 1132), "moveFailed" (1135), "restored" (1167)
\* and "restoreFailed" (1172) in their order
logStop(s, f, entry) == [s EXCEPT !.frames[f].stopLog = Append(@, entry)]

\* a tryReplaceStop whose catch logs the failure and restores nothing
ReplaceAfterPlaceNoRollback(s0, f, outcome) ==
    AfterPass(IF outcome = "thrown" THEN logStop(s0, f, "moveFailed")
              ELSE IF outcome = "ok" THEN logStop(s0, f, "moved")
              ELSE s0, f)

\* the rollback: restore the old stop price if it is still valid for the side
ReplaceAfterPlace(s0, f, outcome) ==
    LET s == IF outcome = "thrown" THEN logStop(s0, f, "moveFailed")
             ELSE IF outcome = "ok" THEN logStop(s0, f, "moved")
             ELSE s0
        fr == Fr(s, f)
        side == StopSide(fr.position)
        existingStopPrice == fr.currentStop.stopPrice
        restoreInvalid == \/ side = "SELL" /\ existingStopPrice >= fr.price
                          \/ side = "BUY" /\ existingStopPrice <= fr.price
        call == StopCall(f, fr, "STOP_MARKET", existingStopPrice, "stopRestore")
    IN  IF outcome # "thrown" \/ restoreInvalid THEN AfterPass(s, f)
        ELSE IF isOperating(s.locks, "STOP_MARKET")
        THEN AfterPass(tracedPlace(s, "STOP_MARKET", call), f)
        ELSE Await(tracedPlace(s, "STOP_MARKET", call), f, "stopRestore")

\* the rollback's own try/catch: lines 1139-1173
RestoreAfterPlace(s, f, outcome) ==
    AfterPass(IF outcome = "thrown" THEN logStop(s, f, "restoreFailed")
              ELSE IF outcome = "ok" THEN logStop(s, f, "restored")
              ELSE s, f)

\* --- regular stop pass: lines 819-843 ----------------------------------
Regular(s0, f) ==
    LET s == [s0 EXCEPT !.frames[f].pass = "regular"]
        fr == Fr(s, f)
        side == StopSide(fr.position)
        stopPrice == RegularStopPrice(fr)
        existingStopPrice == fr.currentStop.stopPrice
        shouldUpdate ==
            \/ side = "SELL" /\ stopPrice >= existingStopPrice + priceTick * 10
            \/ side = "BUY" /\ stopPrice <= existingStopPrice - priceTick * 10
    IN  IF ~fr.currentStop.present
        THEN tryPlaceStopLoss(s, f, roundDownToTick(stopPrice, priceTick))
        ELSE IF shouldUpdate THEN tryReplaceStop(s, f, stopPrice)
        ELSE Trailing(s, f)

AfterPass(s, f) ==
    IF Fr(s, f).pass = "profitLock" THEN Regular(s, f) ELSE Trailing(s, f)

\* --- profit-lock pass: lines 797-817 -----------------------------------
ProfitLock(s0, f) ==
    LET s == [s0 EXCEPT !.frames[f].pass = "profitLock"]
        fr == Fr(s, f)
        side == StopSide(fr.position)
        opt == optimizedProfitLockStopPrice(fr)
        profitLockValid == \/ side = "SELL" /\ opt <= fr.price - priceTick
                           \/ side = "BUY" /\ opt >= fr.price + priceTick
        existingPrice == fr.currentStop.stopPrice
        improves == \/ side = "SELL" /\ opt >= existingPrice + priceTick
                    \/ side = "BUY" /\ opt <= existingPrice - priceTick
    IN  IF /\ \/ FramePnl(fr) > fr.risk.profitLockTrigger
              \/ fr.position.unrealizedProfit > fr.risk.profitLockTrigger
           /\ profitLockValid
        THEN IF ~fr.currentStop.present THEN tryPlaceStopLoss(s, f, opt)
             ELSE IF improves THEN tryReplaceStop(s, f, opt)
             ELSE Regular(s, f)
        ELSE Regular(s, f)

NoOrder == [present |-> FALSE, orderId |-> NoId, stopPrice |-> 0]

\* openOrders.find(...): the first order of the type and side, in id order
FindOrder(orders, type, side) ==
    LET m == {o \in orders : o.type = type /\ o.side = side}
    IN  IF m = {} THEN NoOrder
        ELSE LET o == CHOOSE x \in m : \A y \in m : x.orderId <= y.orderId
             IN  [present |-> TRUE, orderId |-> o.orderId, stopPrice |-> o.stopPrice]

\* handlePositionManagement: lines 677-1055
handlePositionManagement(s, f) ==
    LET fr == Fr(s, f)
    IN  IF ~hasEntryPrice(fr.position)
        THEN TickEnd(deferRisk(s), f, FALSE)
        ELSE ProfitLock(
                 [entryPriceSynced(s) EXCEPT
                           !.frames[f].risk = CurrentRisk(s),
                           !.frames[f].bid1 = IF s.depthSnapshot.present
                                              THEN s.depthSnapshot.bid ELSE fr.price,
                           !.frames[f].ask1 = IF s.depthSnapshot.present
                                              THEN s.depthSnapshot.ask ELSE fr.price,
                           !.frames[f].currentStop =
                               FindOrder(s.openOrders, "STOP_MARKET", StopSide(fr.position)),
                           !.frames[f].currentTrailing =
                               FindOrder(s.openOrders, "TRAILING_STOP_MARKET",
                                         StopSide(fr.position)).present], f)

\* --- handleOpenPosition and submitMarketOrder: lines 594-675 ------------
OpenCall(f, side) ==
    [f |-> f, op |-> "place", kind |-> "MARKET", by |-> "open",
     side |-> side, qty |-> TradeAmount, reduceOnly |-> FALSE, price |-> 0, stopPrice |-> 0, ids |-> {}]

submitMarketOrder(s, f, side) ==
    IF feeMonitorShouldStop(s) THEN TickEnd([s EXCEPT !.frames[f].feeSkip = TRUE], f, FALSE)
    ELSE IF ~canPlaceNewOrder(s) THEN TickEnd(s, f, FALSE)
    ELSE IF isOperating(s.locks, "MARKET")
    THEN TickEnd(tracedPlace(s, "MARKET", OpenCall(f, side)), f, FALSE)
    ELSE Await(tracedPlace(s, "MARKET", OpenCall(f, side)), f, "open")

AfterOpen(s, f, outcome) == TickEnd(s, f, FALSE)

OpenCross(s, f) ==
    LET currentPrice == Fr(s, f).price
    IN  IF s.lastPrice > Sma0 /\ currentPrice < Sma0 THEN submitMarketOrder(s, f, "SELL")
        ELSE IF s.lastPrice < Sma0 /\ currentPrice > Sma0 THEN submitMarketOrder(s, f, "BUY")
        ELSE TickEnd(s, f, FALSE)

AfterCancelAll(s, f, outcome) ==
    IF outcome \in {"ok", "unknown"}
    THEN OpenCross([s EXCEPT !.cancelAllRequested = TRUE,
                             !.pendingCancelOrders = {},
                             !.openOrders = {}], f)
    ELSE OpenCross([s EXCEPT !.cancelAllRequested = FALSE], f)

CancelAllCall(f) ==
    [f |-> f, op |-> "cancelAll", kind |-> "CANCEL", by |-> "cancelAll",
     side |-> "NONE", qty |-> 0, reduceOnly |-> FALSE, price |-> 0, stopPrice |-> 0, ids |-> {}]

handleOpenPosition(s0, f) ==
    LET s == entryPriceSynced(s0)
    IN  IF s.lastPrice = 0 THEN TickEnd(s, f, FALSE)
        ELSE IF s.openOrders # {} /\ ~s.cancelAllRequested
        THEN Await([s EXCEPT !.inflight = @ \cup {CancelAllCall(f)}], f, "cancelAll")
        ELSE OpenCross(s, f)

\* --- detectManualPositionClose: lines 119-200 ---------------------------
\* lines 169-200: !hadPosition && hasPosition, the "manual open" trade-log line
\* and the fee record of the opening trade
detectManualOpen(s, position) ==
    [s EXCEPT !.feeRecords = recordTrade(@, 1),
              !.manualOpenEvent = [done |-> TRUE, own |-> position.epoch \in s.ownOpens]]

detectManualPositionClose(s, position, currentPrice) ==
    LET hasPosition == Abs(position.positionAmt) > 0
        hadPosition == s.wasPositionOpen
        s1 == IF hadPosition /\ ~hasPosition
              THEN GreedyLeave([s EXCEPT !.totalTrades = @ + 1,
                                         !.feeRecords = recordTrade(@, 1)])
              ELSE s
        s2 == IF hasPosition /\ ~hadPosition
              THEN detectManualOpen(s1, position)
              ELSE s1
    IN  [s2 EXCEPT !.wasPositionOpen = hasPosition,
                   !.ownOpens = IF hasPosition THEN {e \in @ : e > position.epoch} ELSE @,
                   !.lastPositionAmount = IF hasPosition THEN position.positionAmt ELSE @,
                   !.lastPositionEntryPrice = IF hasPosition THEN position.entryPrice ELSE @]

\* a readiness test that does not wait for the klines
isReadyWithoutKlines(s) ==
    /\ s.accountSnapshot.present /\ s.tickerSnapshot.present
    /\ s.depthSnapshot.present

isReady(s) ==
    /\ s.accountSnapshot.present /\ s.tickerSnapshot.present
    /\ s.depthSnapshot.present /\ s.klineSnapshot >= 30

NewFrame(position, price) ==
    [pc |-> "run", position |-> position, price |-> price, bid1 |-> 0, ask1 |-> 0,
     currentStop |-> NoOrder, currentTrailing |-> FALSE, pass |-> "none", nextStop |-> 0,
     ids |-> {}, breach |-> FALSE, guardAbort |-> FALSE, closeIssued |-> FALSE,
     greedyVerdict |-> "none", tpCheck |-> NoTpCheck, lockPlaced |-> FALSE,
     stopLog |-> <<>>, feeSkip |-> FALSE, risk |-> NoRisk]

NoTick ==
    [ran |-> FALSE, breach |-> FALSE, guardAbort |-> FALSE, closeIssued |-> FALSE,
     closed |-> FALSE, threw |-> FALSE, greedyVerdict |-> "none", tpCheck |-> NoTpCheck,
     cancelIds |-> {}, stopLog |-> <<>>, feeSkip |-> FALSE]

\* a tick() without the processing check
tickGateOpen(s) == TRUE

\* the guard of tick(): a firing while processing is true returns at once
tickGate(s) == ~s.processing

\* tick(): lines 521-576, up to its first await
tickBody(s0, f) ==
    LET s == [s0 EXCEPT !.processing = TRUE]
    IN  IF ~s.ordersSnapshotReady \/ ~isReady(s)
        THEN [s EXCEPT !.processing = FALSE, !.lastTick = NoTick, !.earlyTick = TRUE]
        ELSE LET price == s.tickerSnapshot.lastPrice
                 s0a == updateDynamicRiskIfNeeded(s, price)
                 position == getPosition(s0a.accountSnapshot)
                 s1 == detectManualPositionClose(s0a, position, price)
                 s2 == [s1 EXCEPT !.frames[f] = NewFrame(position, price)]
             IN  IF Abs(position.positionAmt) = 0 THEN handleOpenPosition(s2, f)
                 ELSE handlePositionManagement(s2, f)

\* what the tick does when the answer to its awaited call arrives
tickResume(s, f, outcome) ==
    LET pc == Fr(s, f).pc
    IN  CASE pc = "slClose"     -> SLAfterClose(s, f, outcome)
          [] pc = "slCancel"    -> SLAfterCancel(s, f, outcome)
          [] pc = "tpClose"     -> TPAfterClose(s, f, outcome)
          [] pc = "tpCancel"    -> TPAfterCancel(s, f, outcome)
          [] pc = "trail"       -> AfterTrail(s, f, outcome)
          [] pc = "stopPlace"   -> AfterPass(s, f)
          [] pc = "stopCancel"  -> ReplaceAfterCancel(s, f, outcome)
          [] pc = "stopReplace" -> ReplaceAfterPlace(s, f, outcome)
          [] pc = "stopRestore" -> RestoreAfterPlace(s, f, outcome)
          [] pc = "open"        -> AfterOpen(s, f, outcome)
          [] pc = "cancelAll"   -> AfterCancelAll(s, f, outcome)

\* --- MakerEngine's order-stream handler (maker-engine.ts) ---------------
\* syncLocksWithOrders: a kind with a pending id is released unless the
\* pushed orders hold that id with no status, NEW or PARTIALLY_FILLED
syncLocksWithOrders(s, orders) ==
    LET unlock == {k \in Kinds :
                     /\ s.pending[k] # NoId
                     /\ LET m == {o \in orders : o.orderId = s.pending[k]}
                        IN  m = {} \/ \E o \in m :
                                         /\ o.status # ""
                                         /\ o.status # "NEW"
                                         /\ o.status # "PARTIALLY_FILLED"}
    IN  unlockEach(s, unlock)

\* the handler bootstrap() hands to watchOrders
makerWatchOrders(s, orders) ==
    LET s1 == syncLocksWithOrders(s, orders)
        open == {o \in orders : o.type # "MARKET"}
    IN  [s1 EXCEPT !.openOrders = open,
                   !.pendingCancelOrders = {id \in s1.pendingCancelOrders : id \in {o.orderId : o \in open}},
                   !.initialOrderSnapshotReady = TRUE]

\* --- the order-stream handler: lines 387-458 ----------------------------
\* TrendEngine's handler run with MakerEngine's rule
synchronizeLocksAsMaker(s, orders) == syncLocksWithOrders(s, orders)

Terminal(status) == status # "" /\ status # "NEW"

synchronizeLocks(s, orders) ==
    LET unlock == {k \in Kinds :
                     /\ s.pending[k] # NoId
                     /\ LET m == {o \in orders : o.orderId = s.pending[k]}
                        IN  m = {} \/ \E o \in m : Terminal(o.status)}
    IN  unlockEach(s, unlock)

\* a handler that answers a push of resting orders by cancelling them all
watchOrdersCancelling(s, orders) ==
    LET s1 == synchronizeLocks(s, orders)
        open == {o \in orders : o.type # "MARKET"}
    IN  [s1 EXCEPT !.openOrders = open,
                   !.ordersSnapshotReady = TRUE,
                   !.inflight = IF open = {} THEN @ ELSE @ \cup {CancelAllCall(0)}]

watchOrders(s, orders) ==
    LET s1 == synchronizeLocks(s, orders)
        filled == Cardinality({o \in orders : o.status = "FILLED"})
        open == {o \in orders : o.type # "MARKET"}
        pend == {id \in s1.pendingCancelOrders : id \in OrderIdsOf(open)}
    IN  [s1 EXCEPT !.feeRecords = recordTrade(@, filled),
                   !.feeOrderIds = recordFilled(@, {o.orderId : o \in {x \in orders : x.status = "FILLED"}}),
                   !.openOrders = open,
                   !.pendingCancelOrders = pend,
                   !.cancelAllRequested = IF open = {} \/ pend = {} THEN FALSE ELSE @,
                   !.ordersSnapshotReady = TRUE]

\* ------------------------------------------------------------------------
\* The exchange: one position of at most one contract, a listing of orders
\* ------------------------------------------------------------------------
Delta(side, qty) == IF side = "BUY" THEN qty ELSE 0 - qty

UsedIds(s) ==
    OrderIdsOf(s.exOrders) \cup OrderIdsOf(s.openOrders) \cup s.pendingCancelOrders
        \cup {s.pending[k] : k \in Kinds}
        \cup UNION {IF s.frames[f].pc = "idle" THEN {}
                    ELSE s.frames[f].ids \cup {s.frames[f].currentStop.orderId} : f \in FrameIds}

\* the exchange numbers its orders upward
FreeIds(s) == {id \in 1..s.exIdLimit : \A u \in UsedIds(s) : u < id}

NextId(s) == CHOOSE id \in FreeIds(s) : \A other \in FreeIds(s) : id <= other

\* a filled market order is never listed among the orders; its id is MarketId
MarketId == MaxStopOrderId + 1

ExOrder(id, c, status) ==
    [orderId |-> id, type |-> c.kind, side |-> c.side, price |-> c.price,
     stopPrice |-> c.stopPrice, reduceOnly |-> c.reduceOnly, status |-> status]

\* can the exchange accept the call, and with which answers may it reply
CanAccept(s, c) ==
    CASE c.op = "place" /\ c.kind = "MARKET" ->
            /\ Abs(s.exPos.amt + Delta(c.side, c.qty)) <= 1
            /\ c.reduceOnly => s.exPos.amt # 0
            /\ s.exPos.amt = 0 => s.exPos.epoch < MaxEpoch
      [] c.op = "place" -> FreeIds(s) # {}
      [] c.op = "cancel" -> \E o \in s.exOrders : o.orderId \in c.ids /\ o.status = "NEW"
      [] OTHER -> TRUE

CanUnknown(s, c) ==
    CASE c.op = "cancel" -> \E id \in c.ids : ~\E o \in s.exOrders : o.orderId = id /\ o.status = "NEW"
      [] c.op = "cancelAll" -> ~\E o \in s.exOrders : o.status = "NEW"
      [] OTHER -> FALSE

\* a failed placement releases the lock inside the coordinator, which then
\* either returns nothing ("error") or lets the failure reach the engine's
\* catch ("thrown"); a failed cancel is the adapter's rejection ("error")
Outcomes(s, c) ==
    {"error"} \cup (IF c.op = "place" THEN {"thrown"} ELSE {})
              \cup (IF CanAccept(s, c) THEN {"ok"} ELSE {})
              \cup (IF CanUnknown(s, c) THEN {"unknown"} ELSE {})

\* the effect of an accepted call on the exchange
ExApply(s, c) ==
    CASE c.op = "place" /\ c.kind = "MARKET" ->
            LET amt == s.exPos.amt + Delta(c.side, c.qty)
            IN  [s EXCEPT !.exCloses = IF amt = 0 THEN @ + 1 ELSE @,
                          !.exPos = IF amt = 0 THEN [@ EXCEPT !.amt = 0, !.entry = 0]
                                    ELSE [amt |-> amt, entry |-> EntryPrice0, epoch |-> @.epoch + 1],
                          !.ownOpens = IF amt = 0 THEN @ ELSE @ \cup {s.exPos.epoch + 1}]
      [] c.op = "place" ->
            [s EXCEPT !.exOrders = @ \cup {ExOrder(NextId(s), c, "NEW")}]
      [] c.op = "cancel" ->
            [s EXCEPT !.exOrders = {o \in s.exOrders : ~(o.orderId \in c.ids /\ o.status = "NEW")}]
      [] c.op = "cancelAll" ->
            [s EXCEPT !.exOrders = {o \in s.exOrders : o.status # "NEW"}]

AccountOf(pos, mark) ==
    IF pos.amt = 0 THEN [present |-> TRUE, position |-> FlatPosition]
    ELSE [present |-> TRUE,
          position |-> [positionAmt |-> pos.amt,
                        entryPrice |-> pos.entry,
                        unrealizedProfit |-> (mark - pos.entry) * pos.amt,
                        markPrice |-> mark,
                        epoch |-> pos.epoch]]

\* the account-stream handler: lines 326-379
watchAccount(s, snapshot) == [s EXCEPT !.accountSnapshot = snapshot]

CurMark(s) ==
    IF s.accountSnapshot.present /\ s.accountSnapshot.position.positionAmt # 0
    THEN s.accountSnapshot.position.markPrice
    ELSE FlatMark

\* the exchange streams its account and its order listing after a change
ExPush(s) ==
    LET s1 == watchAccount(s, AccountOf(s.exPos, CurMark(s)))
    IN  IF s.engine = "maker" THEN makerWatchOrders(s1, s.exOrders)
        ELSE watchOrders(s1, s.exOrders)

\* the answer reaches the coordinator, which settles the lock of the kind
Answer(s, c, outcome) ==
    IF c.op # "place" THEN s
    ELSE IF outcome = "ok"
    THEN placeAck(s, c.kind, TRUE, IF c.kind = "MARKET" THEN MarketId
                                   ELSE CHOOSE id \in 1..s.exIdLimit :
                                            \E o \in s.exOrders :
                                                /\ o.orderId = id
                                                /\ \A x \in s.exOrders : x.orderId <= id)
    ELSE placeAck(s, c.kind, FALSE, NoId)

\* the exchange serves the call
Serve(s, c, outcome) ==
    LET s1 == [s EXCEPT !.inflight = @ \ {c}]
    IN  IF outcome = "ok" THEN ExApply(s1, c) ELSE s1

\* ------------------------------------------------------------------------
\* MakerEngine (core/maker-engine.ts): the tick, as the synchronous stretches
\* between its awaits
\* ------------------------------------------------------------------------
MakerLossLimit == 100

MakerProfitTarget == 200

MakerPriceChase == 300

MakerBidOffset == 0

MakerAskOffset == 0

DesiredOrder(side, price, amount, reduceOnly) ==
    [side |-> side, price |-> price, amount |-> amount, reduceOnly |-> reduceOnly]

\* lib/order-plan: an open order serves a target of its side and reduce-only
\* flag whose price is within the tolerance; the other open orders are to be
\* cancelled, the targets no order serves are to be placed
Serves(o, t, tolerance) ==
    /\ o.side = t.side /\ o.reduceOnly = t.reduceOnly
    /\ Abs(o.price - t.price) <= tolerance

makeOrderPlan(openOrders_, targets, tolerance) ==
    [toCancel |-> {o \in openOrders_ :
                      ~\E i \in 1..Len(targets) : Serves(o, targets[i], tolerance)},
     toPlace |-> SelectSeq(targets,
                     LAMBDA t : ~\E o \in openOrders_ : Serves(o, t, tolerance))]

\* a risk valuation at the opening-side price: the ask for a long, the bid
\* for a short
shouldMakerStopLossAtOpeningSide(position, bidPrice, askPrice, lossLimit) ==
    /\ Abs(position.positionAmt) > 0 /\ hasEntryPrice(position)
    /\ ((IF position.positionAmt > 0 THEN askPrice ELSE bidPrice) - position.entryPrice)
           * position.positionAmt < 0 - lossLimit

\* utils/maker-risk
computeMakerPnl(position, bidPrice, askPrice) ==
    IF Abs(position.positionAmt) = 0 \/ ~hasEntryPrice(position) THEN 0
    ELSE ((IF position.positionAmt > 0 THEN bidPrice ELSE askPrice) - position.entryPrice)
             * position.positionAmt

shouldMakerStopLoss(position, bidPrice, askPrice, lossLimit) ==
    /\ Abs(position.positionAmt) > 0 /\ hasEntryPrice(position)
    /\ ((IF position.positionAmt > 0 THEN bidPrice ELSE askPrice) - position.entryPrice)
           * position.positionAmt < 0 - lossLimit

shouldMakerTakeProfit(position, bidPrice, askPrice, profitTarget) ==
    /\ Abs(position.positionAmt) > 0 /\ hasEntryPrice(position)
    /\ ((IF position.positionAmt > 0 THEN bidPrice ELSE askPrice) - position.entryPrice)
           * position.positionAmt >= profitTarget

\* checkRisk, lines 358-393: the branch it takes; closes counts its
\* executeClose calls
checkRisk(position, bidPrice, askPrice, lossLimit, profitTarget) ==
    LET triggerStopLoss == shouldMakerStopLoss(position, bidPrice, askPrice, lossLimit)
        triggerTakeProfit == shouldMakerTakeProfit(position, bidPrice, askPrice, profitTarget)
    IN  IF Abs(position.positionAmt) = 0 THEN [branch |-> "flat", closes |-> 0]
        ELSE IF ~hasEntryPrice(position) THEN [branch |-> "defer", closes |-> 0]
        ELSE IF triggerStopLoss THEN [branch |-> "stop", closes |-> 1]
        ELSE IF triggerTakeProfit THEN [branch |-> "profit", closes |-> 1]
        ELSE [branch |-> "none", closes |-> 0]

MakerFrame ==
    [pc |-> "run", position |-> FlatPosition, price |-> 0, bidPrice |-> 0, askPrice |-> 0,
     toCancel |-> {}, toPlace |-> <<>>, ids |-> {}, currentStop |-> NoOrder,
     closes |-> 0, riskBranch |-> "unchecked",
     breach |-> FALSE, guardAbort |-> FALSE, closeIssued |-> FALSE,
     greedyVerdict |-> "none", tpCheck |-> NoTpCheck, lockPlaced |-> FALSE,
     stopLog |-> <<>>, feeSkip |-> FALSE]

\* the finally of tick(): the flag is cleared however the body ended
MakerEnd(s, f) ==
    [s EXCEPT !.processing = FALSE,
              !.lastTick = TickRecord(Fr(s, f), FALSE, FALSE),
              !.frames[f] = IdleFrame]

LimitCall(f, target) ==
    [f |-> f, op |-> "place", kind |-> "LIMIT", by |-> "maker",
     side |-> target.side, qty |-> target.amount, reduceOnly |-> target.reduceOnly,
     price |-> target.price, stopPrice |-> 0, ids |-> {}]

\* the three callbacks handed to safeCancelOrder
MakerAfterCancelOne(s, f, outcome) ==
    LET ids == Fr(s, f).ids
        s1 == IF outcome = "ok" THEN s
              ELSE [s EXCEPT !.pendingCancelOrders = @ \ ids,
                             !.openOrders = {o \in s.openOrders : o.orderId \notin ids}]
    IN  [s1 EXCEPT !.frames[f].toCancel = @ \ ids, !.frames[f].ids = {}]

\* the coordinator's guard of marketClose: the expected price handed over
\* against the mark price handed over
MakerGuardTrips(fr) ==
    LET mark == fr.position.markPrice
        expectedPrice == IF fr.position.positionAmt > 0 THEN fr.bidPrice ELSE fr.askPrice
    IN  /\ mark > 0 /\ expectedPrice > 0
        /\ Abs(expectedPrice - mark) * MaxCloseSlippagePct.d > MaxCloseSlippagePct.n * mark

\* executeClose after flushOrders: marketClose
MakerClose(s, f) ==
    IF MakerGuardTrips(Fr(s, f))
    THEN MakerEnd([s EXCEPT !.frames[f].guardAbort = TRUE], f)
    ELSE IF isOperating(s.locks, "MARKET")
    THEN MakerEnd(tracedPlace(s, "MARKET", CloseCall(f, Fr(s, f), "makerClose")), f)
    ELSE Await([tracedPlace(s, "MARKET", CloseCall(f, Fr(s, f), "makerClose"))
                   EXCEPT !.frames[f].closeIssued = TRUE], f, "mClose")

\* one loop over orders to cancel: syncOrders' toCancel (then the placements
\* and the risk check follow) or flushOrders (then marketClose follows)
RECURSIVE MakerCancelLoop(_, _, _)

RECURSIVE MakerPlaceLoop(_, _)

\* checkRisk
MakerRisk(s0, f) ==
    LET fr == Fr(s0, f)
        position == fr.position
        check == checkRisk(position, fr.bidPrice, fr.askPrice, MakerLossLimit,
                           MakerProfitTarget)
        s1 == [s0 EXCEPT !.frames[f].riskBranch = check.branch,
                         !.frames[f].closes = @ + check.closes]
    IN  IF check.branch = "flat" THEN MakerEnd(s1, f)
        ELSE IF check.branch = "defer"
        THEN MakerEnd(deferRisk(s1), f)
        ELSE IF check.branch \in {"stop", "profit"}
        THEN MakerCancelLoop([entryPriceSynced(s1) EXCEPT
                                       !.frames[f].breach = TRUE,
                                       !.frames[f].toCancel = OrderIdsOf(s1.openOrders)],
                             f, "mFlush")
        ELSE MakerEnd(entryPriceSynced(s1), f)

MakerCancelLoop(s, f, pcAt) ==
    LET todo == Fr(s, f).toCancel
    IN  IF todo = {}
        THEN (IF pcAt = "mFlush" THEN MakerClose(s, f) ELSE MakerPlaceLoop(s, f))
        ELSE LET id == CHOOSE i \in todo : \A j \in todo : i <= j
             IN  IF id \in s.pendingCancelOrders
                 THEN MakerCancelLoop([s EXCEPT !.frames[f].toCancel = @ \ {id}], f, pcAt)
                 ELSE Await([s EXCEPT !.pendingCancelOrders = @ \cup {id},
                                      !.frames[f].ids = {id},
                                      !.inflight = @ \cup {CancelCall(f, {id}, pcAt)}],
                            f, pcAt)

MakerPlaceLoop(s, f) ==
    LET todo == Fr(s, f).toPlace
    IN  IF todo = <<>> THEN MakerRisk(s, f)
        ELSE LET s1 == [s EXCEPT !.frames[f].toPlace = Tail(@)]
                 call == LimitCall(f, Head(todo))
             IN  IF isOperating(s.locks, "LIMIT")
                 THEN MakerPlaceLoop(tracedPlace(s1, "LIMIT", call), f)
                 ELSE Await(tracedPlace(s1, "LIMIT", call), f, "mPlace")

\* tick() from the quotes on: the desired orders, syncOrders, checkRisk
MakerQuote(s, f) ==
    LET bidPrice == roundDownToTick(s.depthSnapshot.bid - MakerBidOffset, priceTick)
        askPrice == roundDownToTick(s.depthSnapshot.ask + MakerAskOffset, priceTick)
        position == getPosition(s.accountSnapshot)
        absPosition == Abs(position.positionAmt)
        closeSide == IF position.positionAmt > 0 THEN "SELL" ELSE "BUY"
        desired == IF absPosition = 0
                   THEN <<DesiredOrder("BUY", bidPrice, TradeAmount, FALSE),
                          DesiredOrder("SELL", askPrice, TradeAmount, FALSE)>>
                   ELSE <<DesiredOrder(closeSide,
                                       IF closeSide = "SELL" THEN askPrice ELSE bidPrice,
                                       absPosition, TRUE)>>
        availableOrders == {o \in s.openOrders : o.orderId \notin s.pendingCancelOrders}
        plan == makeOrderPlan(availableOrders, desired, MakerPriceChase)
    IN  MakerCancelLoop(
            [(IF absPosition = 0 THEN entryPriceSynced(s) ELSE s) EXCEPT
                      !.frames[f].position = position,
                      !.frames[f].price = bidPrice,
                      !.frames[f].bidPrice = bidPrice,
                      !.frames[f].askPrice = askPrice,
                      !.frames[f].toCancel = OrderIdsOf(plan.toCancel),
                      !.frames[f].toPlace = plan.toPlace], f, "mCancel")

\* an ensureStartupOrderReset that marks the reset done whatever the answer
MakerAfterResetAlwaysDone(s, f, outcome) ==
    MakerQuote(unlockOperating([s EXCEPT !.pendingCancelOrders = {},
                                         !.openOrders = {},
                                         !.initialOrderResetDone = TRUE], "LIMIT"), f)

\* ensureStartupOrderReset after its cancelAllOrders
MakerAfterReset(s, f, outcome) ==
    IF outcome = "ok"
    THEN MakerQuote(unlockOperating([s EXCEPT !.pendingCancelOrders = {},
                                              !.openOrders = {},
                                              !.initialOrderResetDone = TRUE], "LIMIT"), f)
    ELSE IF outcome = "unknown"
    THEN MakerQuote([s EXCEPT !.initialOrderResetDone = TRUE, !.openOrders = {}], f)
    ELSE MakerEnd(s, f)

\* a tick() without the processing check
makerTickGateOpen(s) == TRUE

\* the guard of tick(): if (this.processing) return
makerTickGate(s) == ~s.processing

\* tick() up to its first await
makerTickBody(s0, f) ==
    LET s == [s0 EXCEPT !.processing = TRUE, !.frames[f] = MakerFrame]
    IN  IF ~(s.accountSnapshot.present /\ s.depthSnapshot.present) THEN MakerEnd(s, f)
        ELSE IF s.initialOrderResetDone THEN MakerQuote(s, f)
        ELSE IF ~s.initialOrderSnapshotReady THEN MakerEnd(s, f)
        ELSE IF s.openOrders = {}
        THEN MakerQuote([s EXCEPT !.initialOrderResetDone = TRUE], f)
        ELSE Await([s EXCEPT !.inflight = @ \cup {CancelAllCall(f)}], f, "mReset")

\* what the tick does when the answer to its awaited call arrives
makerTickResume(s, f, outcome) ==
    LET pc == Fr(s, f).pc
    IN  CASE pc = "mReset"  -> MakerAfterReset(s, f, outcome)
          [] pc = "mCancel" -> MakerCancelLoop(MakerAfterCancelOne(s, f, outcome), f, "mCancel")
          [] pc = "mPlace"  -> MakerPlaceLoop(s, f)
          [] pc = "mFlush"  -> MakerCancelLoop(MakerAfterCancelOne(s, f, outcome), f, "mFlush")
          [] pc = "mClose"  -> MakerEnd(s, f)

\* ------------------------------------------------------------------------
\* Actions of TrendEngine and of its environment
\* ------------------------------------------------------------------------
\* no tick is parked on an exchange call
Quiet == \A f \in FrameIds : frames[f].pc = "idle"

LowestIdle(s) ==
    CHOOSE f \in FrameIds : s.frames[f].pc = "idle"
                            /\ \A g \in FrameIds : s.frames[g].pc = "idle" => f <= g

\* a start() without the check of this.timer: the handle of the interval
\* that was running is overwritten and the interval lives on
startUnchecked(s) ==
    [s EXCEPT !.timer = TRUE, !.intervals = UpTo(@, 2),
              !.lifecycleCall = [call |-> "start", was |-> s.timer]]

\* start(): if (this.timer) return; this.timer = setInterval(...)
start(s) ==
    IF s.timer THEN [s EXCEPT !.lifecycleCall = [call |-> "start", was |-> TRUE]]
    ELSE [s EXCEPT !.timer = TRUE, !.intervals = @ + 1,
                   !.lifecycleCall = [call |-> "start", was |-> FALSE]]

\* stop(): if (this.timer) { clearInterval(this.timer); this.timer = null }
stop(s) ==
    IF s.timer THEN [s EXCEPT !.timer = FALSE, !.intervals = @ - 1,
                              !.lifecycleCall = [call |-> "stop", was |-> TRUE]]
    ELSE [s EXCEPT !.lifecycleCall = [call |-> "stop", was |-> FALSE]]

\* start() of a stopped engine, stop() of a started one
Start ==
    /\ ~timer
    /\ Commit(start(Cur))

Stop ==
    /\ timer
    /\ Commit(stop(Cur))

\* start() and stop() called in whatever state the engine is in
StartAnyTime == Commit(start(Cur))

StopAnyTime == Commit(stop(Cur))

\* the interval timer fires: tick()
TickFire ==
    /\ intervals > 0
    /\ totalTrades < MaxTrades
    /\ \E f \in FrameIds : frames[f].pc = "idle"
    /\ IF tickGate(Cur) THEN Commit(tickBody(Cur, LowestIdle(Cur)))
       ELSE Commit([Cur EXCEPT !.tickSkipped = TRUE])

\* the exchange answers a call a tick is parked on
TickResume ==
    \E c \in inflight :
        /\ c.f \in FrameIds
        /\ \E outcome \in Outcomes(Cur, c), pushFirst \in BOOLEAN :
               LET s1 == Serve(Cur, c, outcome)
               IN  /\ (outcome # "ok") => pushFirst
                   /\ IF pushFirst
                      THEN Commit(tickResume(Answer(IF outcome = "ok" THEN ExPush(s1) ELSE s1,
                                                    c, outcome), c.f, outcome))
                      ELSE Commit(ExPush(tickResume(Answer(s1, c, outcome), c.f, outcome)))

\* the streams deliver between ticks; while a tick is parked on a call the
\* exchange's own push (ExPush, before or after the answer) is what arrives
AccountPush ==
    /\ Quiet
    /\ \E mark \in MarkPrices :
           /\ exPos.amt = 0 => mark = FlatMark
           /\ Commit(watchAccount(Cur, AccountOf(exPos, mark)))

OrdersPush ==
    Commit(IF engine = "maker" THEN makerWatchOrders(Cur, exOrders)
           ELSE watchOrders(Cur, exOrders))

\* the market moves: the depth and ticker streams deliver the new price
MarketPush ==
    /\ Quiet
    /\ \E p \in Prices :
        Commit([Cur EXCEPT !.depthSnapshot = [present |-> TRUE, bid |-> p, ask |-> p],
                           !.tickerSnapshot = [present |-> TRUE, lastPrice |-> p]])

KlinePush ==
    /\ Quiet
    /\ klineSnapshot < 30
    /\ Commit([Cur EXCEPT !.klineSnapshot = 30])

\* the fallback timer of a kind runs out and releases the lock
TimerExpire ==
    \E k \in Kinds :
        /\ timers[k]
        /\ Commit(unlockOperating(Cur, k))

\* time passes; only the manager's wait reads the clock
Advance ==
    /\ Quiet
    /\ now < MaxClock
    /\ greedyState.isActive
    /\ Commit([Cur EXCEPT !.now = @ + 1])

\* a resting stop of the position's closing side triggers and fills
ExTrigger ==
    \E o \in exOrders :
        /\ Quiet
        /\ o.status = "NEW"
        /\ exPos.amt # 0
        /\ exPos.amt + Delta(o.side, 1) = 0
        /\ Commit(ExPush([Cur EXCEPT !.exOrders = @ \ {o},
                                     !.exPos = [@ EXCEPT !.amt = 0, !.entry = 0],
                                     !.exCloses = @ + 1]))

\* the operator opens or closes the position by hand
ManualOpen ==
    /\ Quiet
    /\ exPos.amt = 0
    /\ exPos.epoch < MaxEpoch
    /\ \E a \in {1} :
           Commit(ExPush([Cur EXCEPT !.exPos = [amt |-> a, entry |-> EntryPrice0,
                                                epoch |-> @.epoch + 1]]))

ManualClose ==
    /\ Quiet
    /\ exPos.amt # 0
    /\ Commit(ExPush([Cur EXCEPT !.exPos = [@ EXCEPT !.amt = 0, !.entry = 0],
                             !.exCloses = @ + 1]))

GreedyConfig(enabled, sampleSize) ==
    [enabled |-> enabled, sampleSize |-> sampleSize,
     reversalThreshold |-> GreedyReversalThreshold,
     maxWaitTime |-> GreedyMaxWaitTime,
     extraProfitTarget |-> GreedyExtraProfitTarget]

NoCall == GreedyCallRecord("none", NoState, 0, 0, NoVerdict)

NoPlace == {}

NoPush == [done |-> FALSE, orders |-> {}, cleared |-> {}]

DefaultFees == FeeConfig(TRUE, MaxHourlyFeePct, MaxDailyFeePct)

NoRead ==
    [done |-> FALSE, at |-> 0, summary |-> getFeeSummary(<<>>, 0, 0), shouldStop |-> FALSE]

\* the engine as constructed, beside an exchange holding the given position
InitEngineRisk(pos, orders, idLimit, tick, fees, risk) ==
    /\ exIdLimit = idLimit /\ priceTick = tick
    /\ riskConfig = risk /\ dynamicRisk = NoDynamicRisk /\ riskCheck = NoRiskCheck
    /\ riskCall = NoRiskCall
    /\ enhancedFeeRecords = 0
    /\ analysisCall = NoAnalysisCall
    /\ klineManager = [isConnected |-> TRUE, disconnecting |-> FALSE]
    /\ analysisTimers = 0
    /\ feeOrderIds = <<>>
    /\ earlyTick = FALSE
    /\ syncCompare = NoSyncCompare
    /\ priceArrivals = <<>>
    /\ makerRiskCall = NoMakerRiskCall
    /\ tradeLog = NoTradeLog
    /\ lifecycleCall = NoLifecycleCall
    /\ intervals = 0
    /\ ownOpens = {}
    /\ manualOpenEvent = NoManualOpenEvent
    /\ entryPending = NoEntryPending
    /\ cancelAck = NoCancelAck
    /\ pctCall = NoPctCall
    /\ feeConfig = fees /\ feeLedger = <<>> /\ totalBalance = 0 /\ feeRead = NoRead
    /\ feeClock = 0
    /\ accountSnapshot = None /\ openOrders = {} /\ depthSnapshot = None
    /\ tickerSnapshot = None /\ klineSnapshot = 0
    /\ locks = [k \in Kinds |-> FALSE] /\ timers = [k \in Kinds |-> FALSE]
    /\ pending = [k \in Kinds |-> NoId]
    /\ timer = FALSE /\ processing = FALSE /\ lastPrice = 0
    /\ lastPositionAmount = 0 /\ lastPositionEntryPrice = 0 /\ wasPositionOpen = FALSE
    /\ totalTrades = 0
    /\ cancelAllRequested = FALSE /\ pendingCancelOrders = {}
    /\ ordersSnapshotReady = FALSE /\ entryPricePendingLogged = FALSE
    /\ feeRecords = 0
    /\ exOrders = orders /\ exPos = pos
    /\ frames = [f \in FrameIds |-> IdleFrame] /\ inflight = {}
    /\ lastTick = NoTick /\ exCloses = 0
    /\ greedyExits = [activeEpoch |-> 0, exited |-> {}, last |-> "none"]
    /\ placeTrace = NoPlace /\ tickSkipped = FALSE
    /\ greedyState = NoState /\ now = 0 /\ greedyCall = NoCall
    /\ initialOrderSnapshotReady = FALSE /\ initialOrderResetDone = FALSE
    /\ lastPush = NoPush

\* a resting stop triggers and the order stream lists it as FILLED
ExTriggerListed ==
    \E o \in exOrders :
        /\ Quiet
        /\ o.status = "NEW"
        /\ exPos.amt # 0
        /\ exPos.amt + Delta(o.side, 1) = 0
        /\ Commit(ExPush([Cur EXCEPT !.exOrders = (@ \ {o}) \cup {[o EXCEPT !.status = "FILLED"]},
                                     !.exPos = [@ EXCEPT !.amt = 0, !.entry = 0],
                                     !.exCloses = @ + 1]))

\* the order stream stops listing the orders that have filled
ExUnlist ==
    /\ Quiet
    /\ \E o \in exOrders : o.status = "FILLED"
    /\ Commit(ExPush([Cur EXCEPT !.exOrders = {o \in @ : o.status # "FILLED"}]))

\* the engine constructed with ENABLE_DYNAMIC_RISK unset
InitEngineWith(pos, orders, idLimit, tick, fees) ==
    InitEngineRisk(pos, orders, idLimit, tick, fees, StaticRisk)

InitEngine == InitEngineWith([amt |-> 0, entry |-> 0, epoch |-> 0], {}, MaxOrderId, PriceTick,
                             DefaultFees)

Init ==
    /\ InitEngine
    /\ engine = "trend"
    /\ greedyConfig = GreedyConfig(TRUE, 3)

Next ==
    \/ Start \/ TickFire \/ TickResume
    \/ AccountPush \/ OrdersPush \/ MarketPush \/ KlinePush
    \/ TimerExpire
    \/ ExTrigger \/ ManualOpen \/ ManualClose

Spec == Init /\ [][Next]_vars

\* ------------------------------------------------------------------------
\* TrendEngine with the greedy manager enabled or disabled by configuration,
\* and with stop(): the interval is cleared, a tick already running goes on
\* ------------------------------------------------------------------------
InitGreedyEngine ==
    /\ InitEngine
    /\ engine = "trend"
    /\ greedyConfig \in {GreedyConfig(TRUE, 3), GreedyConfig(TRUE, 2), GreedyConfig(FALSE, 3)}

NextGreedyEngine ==
    \/ Start \/ Stop \/ TickFire \/ TickResume
    \/ AccountPush \/ OrdersPush \/ MarketPush \/ KlinePush
    \/ ManualOpen

SpecGreedyEngine == InitGreedyEngine /\ [][NextGreedyEngine]_vars

\* ------------------------------------------------------------------------
\* TrendEngine started beside a position that is already open, long or short,
\* with an entry price on or off the price tick: the stop passes of its ticks
\* ------------------------------------------------------------------------
StopEntries == {EntryPrice0, EntryPrice0 + 50}

InitStopPass ==
    /\ \E a \in {1, -1}, e \in StopEntries :
           InitEngineWith([amt |-> a, entry |-> e, epoch |-> 1], {}, MaxOrderId, PriceTick,
                          DefaultFees)
    /\ engine = "trend"
    /\ greedyConfig = GreedyConfig(FALSE, 3)

NextStopPass ==
    \/ Start \/ TickFire \/ TickResume
    \/ AccountPush \/ OrdersPush \/ MarketPush \/ KlinePush
    \/ TimerExpire

SpecStopPass == InitStopPass /\ [][NextStopPass]_vars

\* ------------------------------------------------------------------------
\* The same engine beside an open position with a price tick ten times finer,
\* so that the ten-tick threshold of the regular pass (line 834) lies within
\* the distance between the loss-limit stop and the profit-lock stop
\* ------------------------------------------------------------------------
FineTick == 10

\* a stop order an earlier run of the engine has left at the exchange, ten
\* ticks further from the entry than the loss-limit stop
LeftStop(amt) ==
    [orderId |-> 1, type |-> "STOP_MARKET", side |-> IF amt > 0 THEN "SELL" ELSE "BUY",
     price |-> 0,
     stopPrice |-> IF amt > 0 THEN EntryPrice0 - LossLimit - 10 * FineTick
                   ELSE EntryPrice0 + LossLimit + 10 * FineTick,
     reduceOnly |-> TRUE, status |-> "NEW"]

InitStopReplace ==
    /\ \E a \in {1, -1} : \E orders \in {{}, {LeftStop(a)}} :
           InitEngineWith([amt |-> a, entry |-> EntryPrice0, epoch |-> 1], orders,
                          MaxStopOrderId, FineTick, DefaultFees)
    /\ engine = "trend"
    /\ greedyConfig = GreedyConfig(FALSE, 3)

\* the account stream delivers the position with its mark at the entry level
AccountPushAtMark ==
    /\ Quiet
    /\ Commit(watchAccount(Cur, AccountOf(exPos, FlatMark)))

NextStopReplace ==
    \/ Start \/ TickFire \/ TickResume
    \/ AccountPushAtMark \/ OrdersPush \/ MarketPush \/ KlinePush

SpecStopReplace == InitStopReplace /\ [][NextStopReplace]_vars

\* ------------------------------------------------------------------------
\* That engine started beside a long position with no stop at the exchange,
\* the coordinator's fallback timers running out at any moment of its ticks
\* ------------------------------------------------------------------------
InitStopTimers ==
    /\ InitEngineWith([amt |-> 1, entry |-> EntryPrice0, epoch |-> 1], {}, MaxStopOrderId,
                      FineTick, DefaultFees)
    /\ engine = "trend"
    /\ greedyConfig = GreedyConfig(FALSE, 3)

NextStopTimers ==
    \/ Start \/ TickFire \/ TickResume
    \/ AccountPushAtMark \/ OrdersPush \/ MarketPush \/ KlinePush
    \/ TimerExpire

SpecStopTimers == InitStopTimers /\ [][NextStopTimers]_vars

\* ------------------------------------------------------------------------
\* TrendEngine with an order stream that lists a filled stop as FILLED until
\* the exchange stops listing it
\* ------------------------------------------------------------------------
InitFillListing ==
    /\ InitEngine
    /\ engine = "trend"
    /\ greedyConfig = GreedyConfig(FALSE, 3)

NextFillListing ==
    \/ Start \/ TickFire \/ TickResume
    \/ AccountPush \/ OrdersPush \/ MarketPush \/ KlinePush
    \/ TimerExpire \/ ExTriggerListed \/ ExUnlist

SpecFillListing == InitFillListing /\ [][NextFillListing]_vars

\* ------------------------------------------------------------------------
\* TrendEngine with the hourly fee cap at its default of 0.5% (config.ts:58),
\* which one recorded trade exceeds, and with fee protection on or off
\* ------------------------------------------------------------------------
DefaultHourlyFeePct == Pct(1, 2)

InitFees ==
    /\ \E enable \in BOOLEAN :
           InitEngineWith([amt |-> 0, entry |-> 0, epoch |-> 0], {}, MaxOrderId, PriceTick,
                          FeeConfig(enable, DefaultHourlyFeePct, MaxDailyFeePct))
    /\ engine = "trend"
    /\ greedyConfig = GreedyConfig(FALSE, 3)

NextFees ==
    \/ Start \/ TickFire \/ TickResume
    \/ AccountPush \/ OrdersPush \/ MarketPush \/ KlinePush
    \/ ManualOpen \/ ManualClose

SpecFees == InitFees /\ [][NextFees]_vars

\* ------------------------------------------------------------------------
\* FeeMonitor driven on its own: trades are recorded, the balance is
\* updated, time passes (feeClock is Date.now()) and the summary is read
\* ------------------------------------------------------------------------
MaxLedger == 2

MaxFeeClock == 2 * DayMs + 2 * HourMs

Fees == {2, 3}

Balances == {0, 1000}

\* FeeMonitor.recordTrade
FeeRecordTrade ==
    /\ Len(feeLedger) < MaxLedger
    /\ \E fee \in Fees :
           Commit([Cur EXCEPT !.feeLedger = recordFee(@, feeClock, fee), !.feeRead = NoRead])

\* FeeMonitor.updateBalance: lines 61-69
FeeUpdateBalance ==
    \E balance \in Balances :
        Commit([Cur EXCEPT !.totalBalance = balance, !.feeRead = NoRead])

\* time passes: by half hours for the first two hours of a day, then to the
\* next day
FeeAdvance ==
    LET d == IF feeClock % DayMs < 2 * HourMs THEN 1 ELSE DayMs - 2 * HourMs
    IN  /\ feeClock + d <= MaxFeeClock
        /\ Commit([Cur EXCEPT !.feeClock = @ + d, !.feeRead = NoRead])

\* FeeMonitor.getFeeSummary and shouldStopTrading, read now
FeeRead ==
    Commit([Cur EXCEPT !.feeRead =
                [done |-> TRUE, at |-> feeClock,
                 summary |-> getFeeSummary(feeLedger, feeClock, totalBalance),
                 shouldStop |-> shouldStopTrading(feeConfig, feeLedger, feeClock,
                                                  totalBalance)]])

InitFeeLedger ==
    /\ \E enable \in BOOLEAN :
           InitEngineWith([amt |-> 0, entry |-> 0, epoch |-> 0], {}, MaxOrderId, PriceTick,
                          FeeConfig(enable, DefaultHourlyFeePct, MaxDailyFeePct))
    /\ engine = "trend"
    /\ greedyConfig = GreedyConfig(FALSE, 3)

NextFeeLedger == FeeRecordTrade \/ FeeUpdateBalance \/ FeeAdvance \/ FeeRead

SpecFeeLedger == InitFeeLedger /\ [][NextFeeLedger]_vars

\* ------------------------------------------------------------------------
\* TrendEngine with dynamic risk enabled (ENABLE_DYNAMIC_RISK=true) and the
\* default threshold of 5%: the market moves by 2%, by 5% and by less
\* ------------------------------------------------------------------------
RiskPrices == {10000, 10200, 10500}

RiskMarketPush ==
    /\ Quiet
    /\ \E p \in RiskPrices :
        Commit([Cur EXCEPT !.depthSnapshot = [present |-> TRUE, bid |-> p, ask |-> p],
                           !.tickerSnapshot = [present |-> TRUE, lastPrice |-> p]])

InitDynamicRisk ==
    /\ InitEngineRisk([amt |-> 0, entry |-> 0, epoch |-> 0], {}, MaxOrderId, PriceTick,
                      DefaultFees, RiskConfig(TRUE, Pct(5, 100)))
    /\ engine = "trend"
    /\ greedyConfig = GreedyConfig(FALSE, 3)

NextDynamicRisk ==
    \/ Start \/ TickFire \/ TickResume
    \/ AccountPush \/ OrdersPush \/ RiskMarketPush \/ KlinePush

SpecDynamicRisk == InitDynamicRisk /\ [][NextDynamicRisk]_vars

\* ------------------------------------------------------------------------
\* DynamicRiskManager driven on its own: calculateRiskParams is called at any
\* price, in cents, for the default percentages (0.8% risk, 1.8% target, 75%
\* lock ratio, 0.6% offset) and a base amount of 1 or 10
\* ------------------------------------------------------------------------
MaxRiskCallPrice == 120

RiskCallConfigs ==
    {[RiskConfig(TRUE, Pct(15, 1000)) EXCEPT
          !.manager = DynamicRiskConfig(b, Pct(8, 1000), Pct(18, 1000), Pct(3, 4),
                                        Pct(6, 1000), Pct(15, 1000))] : b \in {1, 10}}

InitRiskCall ==
    /\ \E cfg \in RiskCallConfigs :
           InitEngineRisk([amt |-> 0, entry |-> 0, epoch |-> 0], {}, MaxOrderId, PriceTick,
                          DefaultFees, cfg)
    /\ engine = "trend"
    /\ greedyConfig = GreedyConfig(FALSE, 3)

CallCalculateRiskParams ==
    \E p \in 1..MaxRiskCallPrice :
        Commit([Cur EXCEPT !.riskCall =
                    [done |-> TRUE, price |-> p,
                     params |-> calculateRiskParams(riskConfig.manager, p),
                     doubled |-> calculateRiskParams(riskConfig.manager, 2 * p)]])

NextRiskCall == CallCalculateRiskParams

SpecRiskCall == InitRiskCall /\ [][NextRiskCall]_vars

\* ------------------------------------------------------------------------
\* shouldStopLossByPercentage and shouldTakeProfitByPercentage called on their
\* own, as the unit tests call them. Prices are in millionths, so that
\* 1.85 is 1850000 and 1.85 x (1 - 0.0075) = 1.836125 is 1836125.
\* ------------------------------------------------------------------------
PctSlack == 1

PctEntries == {0, 1850000}

PctAmounts == {-20, 0, 20}

\* 0, 0.75% and 1.5%
PctPercentages == {Pct(0, 400), Pct(3, 400), Pct(3, 200)}

\* every boundary entry x (1 +- pct) with its neighbours, and the prices of the tests
PctPrices ==
    {1837000, 1800000, 1900000} \cup
    {(e * (pct.d + sign * pct.n)) \div pct.d + d :
        e \in PctEntries \ {0}, pct \in PctPercentages, sign \in {-1, 1},
        d \in (0 - PctSlack)..PctSlack}

createPosition(positionAmt, entryPrice) ==
    [FlatPosition EXCEPT !.positionAmt = positionAmt, !.entryPrice = entryPrice]

InitPctCall ==
    /\ InitEngineRisk([amt |-> 0, entry |-> 0, epoch |-> 0], {}, MaxOrderId, PriceTick,
                      DefaultFees, StaticRisk)
    /\ engine = "trend"
    /\ greedyConfig = GreedyConfig(FALSE, 3)

CallPercentageChecks ==
    \E amt \in PctAmounts, e \in PctEntries, p \in PctPrices,
       sl \in PctPercentages, tp \in PctPercentages :
        Commit([Cur EXCEPT !.pctCall =
                    [done |-> TRUE, position |-> createPosition(amt, e), price |-> p,
                     stopLossPercentage |-> sl, takeProfitPercentage |-> tp,
                     shouldStop |-> shouldStopLossByPercentage(createPosition(amt, e), p, sl),
                     shouldTakeProfit |->
                         shouldTakeProfitByPercentage(createPosition(amt, e), p, tp)]])

NextPctCall == CallPercentageChecks

SpecPctCall == InitPctCall /\ [][NextPctCall]_vars

\* ------------------------------------------------------------------------
\* MakerEngine with its environment, and the functions of utils/maker-risk
\* and checkRisk's branch called on the positions, quotes and limits of the
\* tests (prices in cents) and on limits around them
\* ------------------------------------------------------------------------
MakerRiskAmounts == {-20, 0, 20}

MakerRiskEntries == {0, 185, 190}

MakerRiskQuotes == {<<185, 186>>, <<187, 188>>, <<188, 189>>, <<190, 191>>}

MakerRiskLossLimits == {50, 60, 70, 100}

MakerRiskProfitTargets == {-70, 50, 60, 100}

\* the functions called as the tests call them, no engine running
CallMakerRisk ==
    /\ intervals = 0 /\ ~accountSnapshot.present /\ ~depthSnapshot.present
    /\ \E amt \in MakerRiskAmounts, e \in MakerRiskEntries, q \in MakerRiskQuotes,
       lossLimit \in MakerRiskLossLimits, profitTarget \in MakerRiskProfitTargets :
        LET position == createPosition(amt, e)
        IN  Commit([Cur EXCEPT !.makerRiskCall =
                [done |-> TRUE, positionAmt |-> amt, entryPrice |-> e,
                 bidPrice |-> q[1], askPrice |-> q[2],
                 lossLimit |-> lossLimit, profitTarget |-> profitTarget,
                 pnl |-> computeMakerPnl(position, q[1], q[2]),
                 stopLoss |-> shouldMakerStopLoss(position, q[1], q[2], lossLimit),
                 takeProfit |-> shouldMakerTakeProfit(position, q[1], q[2], profitTarget),
                 branch |-> checkRisk(position, q[1], q[2], lossLimit, profitTarget).branch]])

\* ------------------------------------------------------------------------
\* createTradeLog: the bounded log of both engines, its push and replace
\* called in any order. history is what was handed to the log since it was
\* last replaced, in order
\* ------------------------------------------------------------------------
MaxLogEntries == 3

MaxLogHistory == 5

LogDetails == {1, 2}

\* the entry lists replace() is handed
LogLists == UNION {[1..n -> LogDetails] : n \in 0..(MaxLogEntries + 1)}

\* Array.prototype.slice(start): a negative start counts from the end, and
\* -0 is 0
slice(seq, begin) ==
    LET len == Len(seq)
        k == IF begin < 0 THEN (IF len + begin > 0 THEN len + begin ELSE 0)
             ELSE (IF begin < len THEN begin ELSE len)
    IN  SubSeq(seq, k + 1, len)

\* push: entries.push(...); if (entries.length > maxEntries) entries.shift()
push(log, detail) ==
    LET pushed == Append(log.entries, detail)
    IN  [log EXCEPT !.entries = IF Len(pushed) > log.maxEntries THEN Tail(pushed) ELSE pushed,
                    !.history = Append(@, detail), !.last = "push"]

\* replace: entries.splice(0, entries.length, ...next.slice(-maxEntries))
replace(log, next) ==
    [log EXCEPT !.entries = slice(next, 0 - log.maxEntries),
                !.history = next, !.last = "replace"]

\* createTradeLog(maxEntries): seed = [], entries = seed.slice(-maxEntries)
createTradeLog(maxEntries) ==
    [created |-> TRUE, maxEntries |-> maxEntries, entries |-> slice(<<>>, 0 - maxEntries),
     history |-> <<>>, last |-> "create"]

InitTradeLog ==
    /\ InitEngine
    /\ engine \in {"trend", "maker"}
    /\ greedyConfig = GreedyConfig(FALSE, 3)

CreateTradeLog ==
    /\ ~tradeLog.created
    /\ \E maxEntries \in 0..MaxLogEntries :
           Commit([Cur EXCEPT !.tradeLog = createTradeLog(maxEntries)])

LogPush ==
    /\ tradeLog.created
    /\ Len(tradeLog.history) < MaxLogHistory
    /\ \E detail \in LogDetails : Commit([Cur EXCEPT !.tradeLog = push(@, detail)])

LogReplace ==
    /\ tradeLog.created
    /\ \E next \in LogLists : Commit([Cur EXCEPT !.tradeLog = replace(@, next)])

NextTradeLog == CreateTradeLog \/ LogPush \/ LogReplace

SpecTradeLog == InitTradeLog /\ [][NextTradeLog]_vars

\* ------------------------------------------------------------------------
\* Either engine with its environment: TrendEngine as in Spec, or MakerEngine
\* with its ticks, the streams, the fills of its quotes and the operator
\* ------------------------------------------------------------------------
\* the refresh timer fires: MakerEngine.tick()
MakerTickFire ==
    /\ engine = "maker"
    /\ intervals > 0
    /\ \E f \in FrameIds : frames[f].pc = "idle"
    /\ IF makerTickGate(Cur) THEN Commit(makerTickBody(Cur, LowestIdle(Cur)))
       ELSE Commit([Cur EXCEPT !.tickSkipped = TRUE])

\* the exchange answers a call a maker tick is parked on
MakerTickResume ==
    \E c \in inflight :
        /\ engine = "maker"
        /\ c.f \in FrameIds
        /\ \E outcome \in Outcomes(Cur, c), pushFirst \in BOOLEAN :
               LET s1 == Serve(Cur, c, outcome)
               IN  /\ (outcome # "ok") => pushFirst
                   /\ IF pushFirst
                      THEN Commit(makerTickResume(
                                      Answer(IF outcome = "ok" THEN ExPush(s1) ELSE s1,
                                             c, outcome), c.f, outcome))
                      ELSE Commit(ExPush(makerTickResume(Answer(s1, c, outcome),
                                                         c.f, outcome)))

\* a resting quote fills and opens a position at its price
ExFill ==
    \E o \in exOrders :
        /\ engine = "maker"
        /\ Quiet
        /\ o.type = "LIMIT" /\ o.status = "NEW" /\ ~o.reduceOnly
        /\ exPos.amt = 0
        /\ exPos.epoch < MaxEpoch
        /\ Commit(ExPush([Cur EXCEPT !.exOrders = @ \ {o},
                                     !.exPos = [amt |-> Delta(o.side, 1), entry |-> o.price,
                                                epoch |-> @.epoch + 1]]))

\* an order left resting from before the engine's first tick
LeftoverOrder ==
    /\ engine = "maker"
    /\ ~timer
    /\ exOrders = {}
    /\ \E side \in {"BUY", "SELL"} :
           Commit(ExPush([Cur EXCEPT !.exOrders =
                              {[orderId |-> 1, type |-> "LIMIT", side |-> side,
                                price |-> FlatMark, stopPrice |-> 0, reduceOnly |-> FALSE,
                                status |-> "NEW"]}]))

\* TrendEngine's own steps, for a specification that holds both engines
TrendTickFire == engine = "trend" /\ TickFire

TrendTickResume == engine = "trend" /\ TickResume

TrendKlinePush == engine = "trend" /\ KlinePush

InitEngines ==
    /\ InitEngine
    /\ engine \in {"trend", "maker"}
    /\ greedyConfig = GreedyConfig(FALSE, 3)

NextEngines ==
    \/ Start \/ AccountPush \/ OrdersPush \/ MarketPush
    \/ TimerExpire \/ ExTrigger \/ ManualOpen \/ ManualClose
    \/ TrendTickFire \/ TrendTickResume \/ TrendKlinePush
    \/ MakerTickFire \/ MakerTickResume \/ ExFill \/ LeftoverOrder

SpecEngines == InitEngines /\ [][NextEngines]_vars

\* MakerEngine with its environment and the direct calls of its risk functions
InitMakerRisk ==
    /\ InitEngine
    /\ engine = "maker"
    /\ greedyConfig = GreedyConfig(FALSE, 3)

NextMakerRisk ==
    \/ Start \/ AccountPush \/ OrdersPush \/ MarketPush
    \/ MakerTickFire \/ MakerTickResume \/ ExFill \/ CallMakerRisk

SpecMakerRisk == InitMakerRisk /\ [][NextMakerRisk]_vars

\* ------------------------------------------------------------------------
\* Both engines with start() and stop(), TrendEngine with the greedy manager
\* enabled or disabled: the ticks, whatever way they end
\* ------------------------------------------------------------------------
InitTickBoundary ==
    /\ InitEngine
    /\ \/ engine = "trend" /\ greedyConfig \in {GreedyConfig(TRUE, 3), GreedyConfig(FALSE, 3)}
       \/ engine = "maker" /\ greedyConfig = GreedyConfig(FALSE, 3)

NextTickBoundary ==
    \/ Start \/ Stop \/ AccountPush \/ OrdersPush \/ MarketPush \/ Advance
    \/ TrendTickFire \/ TrendTickResume \/ TrendKlinePush
    \/ MakerTickFire \/ MakerTickResume \/ ManualOpen \/ ExFill

SpecTickBoundary == InitTickBoundary /\ [][NextTickBoundary]_vars

\* ------------------------------------------------------------------------
\* Both engines with start() and stop() called at any moment, any number of
\* times, between and during the ticks
\* ------------------------------------------------------------------------
InitLifecycle == InitEngines

NextLifecycle ==
    \/ StartAnyTime \/ StopAnyTime \/ AccountPush \/ OrdersPush \/ MarketPush
    \/ TrendKlinePush \/ TrendTickFire \/ TrendTickResume
    \/ MakerTickFire \/ MakerTickResume

SpecLifecycle == InitLifecycle /\ [][NextLifecycle]_vars

\* ------------------------------------------------------------------------
\* Both engines when the order stream lags: the answer to a call reaches the
\* tick before the stream's push, which arrives any time later
\* ------------------------------------------------------------------------
TickResumeLate ==
    \E c \in inflight :
        /\ c.f \in FrameIds
        /\ \E outcome \in Outcomes(Cur, c) :
               LET s1 == Answer(Serve(Cur, c, outcome), c, outcome)
                   s2 == IF engine = "maker" THEN makerTickResume(s1, c.f, outcome)
                         ELSE tickResume(s1, c.f, outcome)
               IN  Commit([s2 EXCEPT !.cancelAck =
                               IF c.op = "cancel"
                               THEN [done |-> TRUE, ids |-> c.ids, outcome |-> outcome]
                               ELSE NoCancelAck])

\* a resting quote fills, a resting stop triggers: at any moment, also while
\* a cancel of that order is on its way, and the streams tell the engine later
ExFillUnseen ==
    \E o \in exOrders :
        /\ engine = "maker"
        /\ o.type = "LIMIT" /\ o.status = "NEW" /\ ~o.reduceOnly
        /\ exPos.amt = 0
        /\ exPos.epoch < MaxEpoch
        /\ Commit([Cur EXCEPT !.exOrders = @ \ {o},
                              !.exPos = [amt |-> Delta(o.side, 1), entry |-> o.price,
                                         epoch |-> @.epoch + 1]])

ExTriggerUnseen ==
    \E o \in exOrders :
        /\ o.status = "NEW"
        /\ exPos.amt # 0
        /\ exPos.amt + Delta(o.side, 1) = 0
        /\ Commit([Cur EXCEPT !.exOrders = @ \ {o},
                              !.exPos = [@ EXCEPT !.amt = 0, !.entry = 0],
                              !.exCloses = @ + 1])

InitCancelRace ==
    /\ InitEngine
    /\ engine \in {"trend", "maker"}
    /\ greedyConfig = GreedyConfig(FALSE, 3)

NextCancelRace ==
    \/ Start \/ AccountPush \/ OrdersPush \/ MarketPush \/ TrendKlinePush
    \/ TrendTickFire \/ MakerTickFire \/ TickResumeLate
    \/ ExTriggerUnseen \/ ExFillUnseen \/ ManualOpen

SpecCancelRace == InitCancelRace /\ [][NextCancelRace]_vars

\* ------------------------------------------------------------------------
\* Both engines when the account stream reports a position before its entry
\* price: the snapshot carries the amount and an entry price of 0
\* ------------------------------------------------------------------------
AccountPushPending ==
    /\ Quiet
    /\ exPos.amt # 0
    /\ \E mark \in MarkPrices :
           Commit(watchAccount(Cur, AccountOf([exPos EXCEPT !.entry = 0], mark)))

InitEntryPending ==
    /\ InitEngine
    /\ \/ engine = "trend" /\ greedyConfig = GreedyConfig(TRUE, 3)
       \/ engine = "maker" /\ greedyConfig = GreedyConfig(FALSE, 3)

NextEntryPending ==
    \/ Start \/ AccountPush \/ AccountPushPending \/ OrdersPush \/ MarketPush
    \/ TrendKlinePush \/ TrendTickFire \/ TrendTickResume
    \/ MakerTickFire \/ MakerTickResume \/ ManualOpen \/ ExFill

SpecEntryPending == InitEntryPending /\ [][NextEntryPending]_vars

\* ------------------------------------------------------------------------
\* EnhancedTrendEngine: the base TrendEngine plus the analysis timer, which
\* decides on the analyzer's signal and places market orders itself
\* ------------------------------------------------------------------------
\* the order of submitEnhancedMarketOrder; it belongs to no tick (frame 0)
EnhancedCall(side) ==
    [f |-> 0, op |-> "place", kind |-> "MARKET", by |-> "enhanced",
     side |-> side, qty |-> TradeAmount, reduceOnly |-> FALSE, price |-> 0, stopPrice |-> 0, ids |-> {}]

\* submitEnhancedMarketOrder: the coordinator's market placement, handed the
\* base engine's lock, timer and pending maps.  The call passes them in
\* another order than the base engine's call does, so the coordinator either
\* gets as far as the adapter (reaches) or fails first, which the try/catch
\* around the call logs and drops.
submitEnhancedMarketOrder(s, side, reaches) ==
    LET s1 == [s EXCEPT !.enhancedFeeRecords = recordTrade(@, 1),
                        !.analysisCall.recorded = TRUE]
        r == IF reaches THEN place(s1, "MARKET", EnhancedCall(side)) ELSE s1
    IN  [r EXCEPT !.analysisCall.submitted = r.inflight # s.inflight]

\* the balance of the enhanced engine's own FeeMonitor: the field as
\* constructed; the engine never calls updateBalance on it
enhancedTotalBalance == 0

\* this.feeMonitor.shouldStopTrading() of the enhanced engine's own monitor
enhancedFeeMonitorShouldStop(s) ==
    shouldStopTrading(s.feeConfig, LedgerOf(s.enhancedFeeRecords), 0, enhancedTotalBalance)

\* executeEnhancedTradingDecision, for an analysis that passes the interval,
\* confidence and risk-level checks: signal BUY or SELL, and strong when its
\* confidence is above 0.8
executeEnhancedTradingDecision(s, signal, strong, reaches) ==
    LET position == getPosition(s.accountSnapshot)
        closeSide == IF position.positionAmt > 0 THEN "SELL" ELSE "BUY"
    IN  IF enhancedFeeMonitorShouldStop(s) THEN s
        ELSE IF ~s.tickerSnapshot.present THEN s
        ELSE IF position.positionAmt = 0 THEN submitEnhancedMarketOrder(s, signal, reaches)
        ELSE IF strong /\ signal = closeSide THEN submitEnhancedMarketOrder(s, closeSide, reaches)
        ELSE s

\* the analysis interval fires: performEnhancedTradingDecision; nothing in it
\* reads the base engine's processing flag
\* the live analysis intervals: start() creates one and keeps no handle of it
MaxAnalysisTimers == 2

\* EnhancedTrendEngine.start(): the base engine's start() and a new analysis
\* interval
enhancedStart(s) ==
    [start(s) EXCEPT !.analysisTimers = UpTo(@, MaxAnalysisTimers)]

\* an EnhancedTrendEngine.stop() that clears the analysis intervals as well
enhancedStopClearing(s) ==
    [stop(s) EXCEPT !.analysisTimers = 0,
                    !.klineManager.disconnecting = s.klineManager.isConnected]

\* EnhancedTrendEngine.stop(): the base engine's stop() and
\* klineManager.disconnect(), which is not awaited
enhancedStop(s) ==
    [stop(s) EXCEPT !.klineManager.disconnecting = s.klineManager.isConnected]

\* performEnhancedTradingDecision: return unless klineManager.isReady()
analysisGate(s) == s.klineManager.isConnected

EnhancedStart ==
    /\ ~timer
    /\ Commit(enhancedStart(Cur))

\* the first start() of the engine
EnhancedFirstStart == analysisTimers = 0 /\ EnhancedStart

EnhancedStop ==
    /\ timer
    /\ Commit(enhancedStop(Cur))

\* RedisKlineManager.disconnect() after its await: the client has closed the
\* connection, or has thrown, which stop() logs
KlineDisconnect ==
    /\ klineManager.disconnecting
    /\ \E closed \in BOOLEAN :
           Commit([Cur EXCEPT !.klineManager = [isConnected |-> ~closed,
                                                disconnecting |-> FALSE]])

AnalysisFire ==
    /\ analysisTimers > 0
    /\ analysisGate(Cur)
    /\ ~\E c \in inflight : c.f = 0
    /\ \E signal \in {"BUY", "SELL"}, strong \in BOOLEAN, reaches \in BOOLEAN :
           Commit(executeEnhancedTradingDecision(
                      [Cur EXCEPT !.analysisCall =
                           [ran |-> TRUE, stopped |-> ~timer, submitted |-> FALSE,
                            recorded |-> FALSE,
                            overCap |-> shouldStopTrading(feeConfig,
                                                          LedgerOf(enhancedFeeRecords),
                                                          0, Balance0)]],
                      signal, strong, reaches))

\* the exchange answers the analysis timer's order
AnalysisResume ==
    \E c \in inflight :
        /\ c.f = 0
        /\ \E outcome \in Outcomes(Cur, c) :
               LET s1 == Answer(Serve(Cur, c, outcome), c, outcome)
               IN  Commit(IF outcome = "ok" THEN ExPush(s1) ELSE s1)

\* the enhanced engine's profile: greedy take-profit off, every position
\* opened and closed by the engine's own orders, every exchange call answered
\* before its fallback timer runs out
InitEnhanced ==
    /\ InitEngine
    /\ engine = "trend"
    /\ greedyConfig = GreedyConfig(FALSE, 3)

NextEnhanced ==
    \/ EnhancedStart \/ TickFire \/ TickResume
    \/ AccountPush \/ OrdersPush \/ MarketPush \/ KlinePush
    \/ ExTrigger
    \/ AnalysisFire \/ AnalysisResume

SpecEnhanced == InitEnhanced /\ [][NextEnhanced]_vars

\* the enhanced engine with fee protection on and the hourly fee cap at its
\* default of 0.5%, which one recorded trade exceeds
InitEnhancedFees ==
    /\ InitEngineWith([amt |-> 0, entry |-> 0, epoch |-> 0], {}, MaxOrderId, PriceTick,
                      FeeConfig(TRUE, DefaultHourlyFeePct, MaxDailyFeePct))
    /\ engine = "trend"
    /\ greedyConfig = GreedyConfig(FALSE, 3)

SpecEnhancedFees == InitEnhancedFees /\ [][NextEnhanced]_vars

\* the enhanced engine started once and stopped
NextEnhancedStop ==
    \/ EnhancedFirstStart \/ EnhancedStop \/ KlineDisconnect
    \/ TickFire \/ TickResume
    \/ AccountPushAtMark \/ OrdersPush \/ MarketPush \/ KlinePush
    \/ AnalysisFire \/ AnalysisResume

SpecEnhancedStop == InitEnhanced /\ [][NextEnhancedStop]_vars

\* ------------------------------------------------------------------------
\* The lock maps under any order stream: placements, their answers, timer
\* expiries and pushes of any order snapshot, for either engine's handler
\* ------------------------------------------------------------------------
SyncKinds == {"STOP_MARKET", "LIMIT"}

SyncStatuses == {"", "NEW", "PARTIALLY_FILLED", "FILLED", "CANCELED"}

\* the snapshots a push can carry: any orders with distinct ids
SyncSnapshots ==
    {{[orderId |-> id, type |-> "LIMIT", side |-> "BUY", price |-> 0, stopPrice |-> 0,
       reduceOnly |-> FALSE, status |-> st[id]] : id \in present} :
        present \in SUBSET OrderIds, st \in [OrderIds -> SyncStatuses]}

SyncCall(kind) ==
    [f |-> 0, op |-> "place", kind |-> kind, by |-> "sync",
     side |-> "BUY", qty |-> TradeAmount, reduceOnly |-> FALSE, price |-> 0, stopPrice |-> 0, ids |-> {}]

InitSync ==
    /\ InitEngine
    /\ engine \in {"trend", "maker"}
    /\ greedyConfig = GreedyConfig(FALSE, 3)

\* the engine places an order of some kind
SyncPlace ==
    \E k \in SyncKinds :
        /\ SyncCall(k) \notin inflight
        /\ Commit(place(Cur, k, SyncCall(k)))

\* the exchange answers a placement: accepted under some id, or refused
SyncAck ==
    \E c \in inflight, ok \in BOOLEAN, id \in OrderIds :
        Commit(placeAck([Cur EXCEPT !.inflight = @ \ {c}], c.kind, ok, id))

\* the order stream pushes a snapshot to the engine's handler
SyncPush ==
    \E orders \in SyncSnapshots :
        LET s0 == Cur
            s1 == IF engine = "maker" THEN makerWatchOrders(s0, orders)
                  ELSE watchOrders(s0, orders)
        IN  Commit([s1 EXCEPT !.lastPush =
                        [done |-> TRUE, orders |-> orders,
                         cleared |-> {k \in Kinds : s0.locks[k] /\ ~s1.locks[k]}]])

NextSync == SyncPlace \/ SyncAck \/ SyncPush \/ TimerExpire

SpecSync == InitSync /\ [][NextSync]_vars

\* the kinds a reconciliation released
Unlocked(before, after) == {k \in Kinds : before.pending[k] # NoId /\ after.pending[k] = NoId}

\* a push handled by the engine's own handler, with what TrendEngine's and
\* MakerEngine's reconciliation each release for the same pending map and the
\* same snapshot
SyncBoth ==
    \E orders \in SyncSnapshots :
        LET s0 == Cur
            s1 == IF engine = "maker" THEN makerWatchOrders(s0, orders)
                  ELSE watchOrders(s0, orders)
        IN  Commit([s1 EXCEPT !.syncCompare =
                        [done |-> TRUE, orders |-> orders, pending |-> s0.pending,
                         trend |-> Unlocked(s0, synchronizeLocks(s0, orders)),
                         maker |-> Unlocked(s0, syncLocksWithOrders(s0, orders))]])

NextSyncBoth == SyncPlace \/ SyncAck \/ SyncBoth \/ TimerExpire

SpecSyncBoth == InitSync /\ [][NextSyncBoth]_vars

\* ------------------------------------------------------------------------
\* GreedyTakeProfitManager driven on its own: any caller, any prices
\* ------------------------------------------------------------------------
engineVars ==
    <<accountSnapshot, openOrders, depthSnapshot, tickerSnapshot, klineSnapshot,
      locks, timers, pending, timer, processing, lastPrice,
      lastPositionAmount, lastPositionEntryPrice, wasPositionOpen,
      totalTrades, cancelAllRequested, pendingCancelOrders,
      ordersSnapshotReady, entryPricePendingLogged,
      feeRecords, exOrders, exPos, frames, inflight, lastTick, exCloses, greedyExits,
      placeTrace, tickSkipped, engine, initialOrderSnapshotReady, initialOrderResetDone,
      lastPush, exIdLimit, priceTick, feeConfig, feeLedger, totalBalance, feeRead,
      feeClock, riskConfig, dynamicRisk, riskCheck, riskCall,
      pctCall,
      cancelAck,
      entryPending,
      manualOpenEvent,
      ownOpens,
      intervals,
      lifecycleCall,
      tradeLog,
      makerRiskCall,
      priceArrivals,
      syncCompare,
      earlyTick,
      feeOrderIds,
      analysisTimers,
      klineManager,
      analysisCall,
      enhancedFeeRecords>>

\* the baseline take-profit percentage handed to shouldActivateGreedy: 1.5%
GreedyBaseline == Pct(15, 1000)

GreedyPrices == {9800, 9801, 9850, 10150, 10199, 10200}

\* the constructor's defaults for the thresholds: 0.2% reversal, 0.5% extra
GreedyConfigs ==
    {[enabled |-> e, sampleSize |-> n,
      reversalThreshold |-> Pct(2, 1000),
      maxWaitTime |-> GreedyMaxWaitTime,
      extraProfitTarget |-> Pct(5, 1000)] : e \in BOOLEAN, n \in {2, 3}}

InitGreedy ==
    /\ InitEngine
    /\ engine = "trend"
    /\ greedyConfig \in GreedyConfigs

CallShouldActivate ==
    \E p \in GreedyPrices, d \in {"long", "short"} :
        LET r == shouldActivateGreedy(greedyState, greedyConfig, now, p, EntryPrice0, d,
                                      GreedyBaseline)
        IN  /\ greedyState' = r.state
            /\ greedyCall' = GreedyCallRecord("activate", greedyState, p, now,
                                              [NoVerdict EXCEPT !.shouldTakeProfit = r.ret])
            /\ UNCHANGED <<greedyConfig, now, engineVars>>

CallUpdate ==
    \E p \in GreedyPrices :
        LET r == updateAndCheckTakeProfit(greedyState, greedyConfig, now, p)
        IN  /\ greedyState' = r.state
            /\ greedyCall' = GreedyCallRecord("update", greedyState, p, now, r.res)
            /\ UNCHANGED <<greedyConfig, now, engineVars>>

CallForceExit ==
    /\ greedyState' = forceExit(greedyState)
    /\ greedyCall' = GreedyCallRecord("forceExit", greedyState, 0, now, NoVerdict)
    /\ UNCHANGED <<greedyConfig, now, engineVars>>

\* Date.now() moves on between two calls
ClockTick ==
    /\ now < MaxClock
    /\ now' = now + 1
    /\ greedyCall' = NoCall
    /\ UNCHANGED <<greedyConfig, greedyState, engineVars>>

NextGreedy == CallShouldActivate \/ CallUpdate \/ CallForceExit \/ ClockTick

SpecGreedy == InitGreedy /\ [][NextGreedy]_vars

\* ------------------------------------------------------------------------
\* The manager's price history, for every sample size parseInt can hand the
\* constructor from 0 up. priceArrivals is the prices the active state was
\* handed, the activating one first
\* ------------------------------------------------------------------------
MaxSampleSize == 3

MaxArrivals == 4

\* prices past the baseline on either side that neither reach the extra
\* target nor reverse
HistoryPrices == {9850, 10150, 10160}

HistoryConfigs ==
    {[enabled |-> TRUE, sampleSize |-> n,
      reversalThreshold |-> Pct(2, 1000),
      maxWaitTime |-> GreedyMaxWaitTime,
      extraProfitTarget |-> Pct(5, 1000)] : n \in 0..MaxSampleSize}

InitHistory ==
    /\ InitEngine
    /\ engine = "trend"
    /\ greedyConfig \in HistoryConfigs

HistoryActivate ==
    \E p \in HistoryPrices, d \in {"long", "short"} :
        LET r == shouldActivateGreedy(greedyState, greedyConfig, now, p, EntryPrice0, d,
                                      GreedyBaseline)
        IN  Commit([Cur EXCEPT
                !.greedyState = r.state,
                !.greedyCall = GreedyCallRecord("activate", greedyState, p, now,
                                                [NoVerdict EXCEPT !.shouldTakeProfit = r.ret]),
                !.priceArrivals = IF r.ret THEN <<p>> ELSE @])

HistoryUpdate ==
    /\ Len(priceArrivals) < MaxArrivals
    /\ \E p \in HistoryPrices :
        LET r == updateAndCheckTakeProfit(greedyState, greedyConfig, now, p)
        IN  Commit([Cur EXCEPT
                !.greedyState = r.state,
                !.greedyCall = GreedyCallRecord("update", greedyState, p, now, r.res),
                !.priceArrivals = IF ~r.state.isActive THEN <<>>
                                  ELSE IF greedyState.isActive THEN Append(@, p)
                                  ELSE @])

HistoryForceExit ==
    Commit([Cur EXCEPT
        !.greedyState = forceExit(greedyState),
        !.greedyCall = GreedyCallRecord("forceExit", greedyState, 0, now, NoVerdict),
        !.priceArrivals = <<>>])

NextHistory == HistoryActivate \/ HistoryUpdate \/ HistoryForceExit \/ ClockTick

SpecHistory == InitHistory /\ [][NextHistory]_vars

\* ------------------------------------------------------------------------
\* Properties of GreedyTakeProfitManager (SpecGreedy)
\* ------------------------------------------------------------------------
\* the call just made was a price update received in the Active state
IsUpdateOfActive == greedyCall.op = "update" /\ greedyCall.pre.isActive

\* what that update saw, written out from its arguments: whether maxWaitTime
\* had elapsed, whether the profit ratio had reached initialProfitPercent +
\* extraProfitTarget, the samples buffered once the price is pushed, and
\* whether the price deviates from their mean by more than reversalThreshold
\* in the unfavourable direction
UpdateCase ==
    LET pre     == greedyCall.pre
        price   == greedyCall.price
        mult    == IF pre.direction = "long" THEN 1 ELSE -1
        init    == pre.initialProfitPercent
        extra   == greedyConfig.extraProfitTarget
        thr     == greedyConfig.reversalThreshold
        pushed  == Append(pre.priceHistory, price)
        samples == IF Len(pushed) > greedyConfig.sampleSize THEN Tail(pushed) ELSE pushed
        n       == Len(samples)
        sum     == SumSeq(samples)
    IN  [timedOut |-> greedyCall.t - pre.activatedAt > greedyConfig.maxWaitTime,
         atTarget |-> (price - pre.entryPrice) * mult * init.d * extra.d
                          >= (init.n * extra.d + extra.n * init.d) * pre.entryPrice,
         atTwoPercent |-> (price - pre.entryPrice) * mult * 100 >= 2 * pre.entryPrice,
         samples  |-> samples,
         deviates |-> IF pre.direction = "long"
                      THEN (price * n - sum) * thr.d < (0 - thr.n) * sum
                      ELSE (price * n - sum) * thr.d > thr.n * sum]

\* C7 (as claimed): a price update received while Active and more than
\* maxWaitTime after activation returns shouldTakeProfit = true with reason
\* greedy_timeout, without throwing, and leaves the manager Inactive.
C7_TimeoutReturnsVerdict ==
    (IsUpdateOfActive /\ UpdateCase.timedOut)
        => (greedyCall.res = Verdict("greedy_timeout") /\ ~greedyState.isActive)

\* C7: the timed-out update as the code runs it: the state is reset and the
\* call raises instead of returning a verdict
C7_TimeoutThrows ==
    /\ IsUpdateOfActive /\ UpdateCase.timedOut
    /\ greedyCall.res.threw /\ ~greedyState.isActive

\* C8 (amended): once Active with initialProfitPercent = the 1.5% baseline,
\* an update arriving within maxWaitTime whose profit ratio is at least
\* initialProfitPercent + extraProfitTarget (2.0%, and not below) returns
\* extra_profit_achieved and resets the state; an update arriving later takes
\* the timeout branch first and ends the Active state whatever the profit; a
\* reversal over at least three samples ends it too; and an update for which
\* none of timeout, target or deviation holds returns shouldTakeProfit = false
\* and leaves the state Active.
C8_ExtraTargetWithinWait ==
    (IsUpdateOfActive /\ greedyCall.pre.initialProfitPercent = GreedyBaseline) =>
        LET u == UpdateCase
        IN  /\ u.timedOut => ~greedyState.isActive
            /\ (~u.timedOut /\ u.atTarget) =>
                   (greedyCall.res = Verdict("extra_profit_achieved") /\ ~greedyState.isActive)
            /\ ~u.timedOut =>
                   (greedyCall.res.reason = "extra_profit_achieved" <=> u.atTwoPercent)
            /\ (~u.timedOut /\ ~u.atTarget /\ Len(u.samples) >= 3 /\ u.deviates) =>
                   ~greedyState.isActive
            /\ (~u.timedOut /\ ~u.atTarget /\ ~u.deviates) =>
                   (greedyCall.res = NoVerdict /\ greedyState.isActive)

\* C8: an update within maxWaitTime at exactly 2.0% profit exits with
\* extra_profit_achieved
C8_ExtraTargetReached ==
    /\ IsUpdateOfActive /\ greedyCall.pre.initialProfitPercent = GreedyBaseline
    /\ (greedyCall.price - greedyCall.pre.entryPrice) * 100 = 2 * greedyCall.pre.entryPrice
    /\ greedyCall.res = Verdict("extra_profit_achieved")
    /\ ~greedyState.isActive

\* C8 (as claimed): the first update whose profit ratio is at least
\* initialProfitPercent + extraProfitTarget returns shouldTakeProfit = true
\* with reason extra_profit_achieved and resets the state.
C8_ExtraTargetAlways ==
    (IsUpdateOfActive /\ greedyCall.pre.initialProfitPercent = GreedyBaseline
        /\ UpdateCase.atTarget)
        => (greedyCall.res = Verdict("extra_profit_achieved") /\ ~greedyState.isActive)

\* C9 (amended): an update while Active, in time and below the extra target,
\* returns price_reversal_detected and resets the state exactly when at least
\* three samples are buffered and the price deviates from their mean by more
\* than reversalThreshold in the unfavourable direction; otherwise it returns
\* shouldTakeProfit = false and keeps the buffered samples.
C9_ReversalNeedsThreeSamples ==
    (IsUpdateOfActive /\ ~UpdateCase.timedOut /\ ~UpdateCase.atTarget) =>
        LET u == UpdateCase
            reversal == Len(u.samples) >= 3 /\ u.deviates
        IN  /\ reversal =>
                   (greedyCall.res = Verdict("price_reversal_detected") /\ ~greedyState.isActive)
            /\ ~reversal =>
                   /\ greedyCall.res = NoVerdict
                   /\ greedyState.isActive
                   /\ greedyState.priceHistory = u.samples

\* C9: a reversal exit happens
C9_ReversalDetected ==
    /\ IsUpdateOfActive /\ ~UpdateCase.timedOut /\ ~UpdateCase.atTarget
    /\ Len(UpdateCase.samples) >= 3 /\ UpdateCase.deviates
    /\ greedyCall.res = Verdict("price_reversal_detected")

\* C9 (as claimed): the update exits with price_reversal_detected exactly when
\* the price deviates from the mean of the buffered samples by more than
\* reversalThreshold in the unfavourable direction, whatever the number of
\* samples.
C9_ReversalAnySampleCount ==
    (IsUpdateOfActive /\ ~UpdateCase.timedOut /\ ~UpdateCase.atTarget) =>
        ((greedyCall.res = Verdict("price_reversal_detected") /\ ~greedyState.isActive)
            <=> UpdateCase.deviates)

C5_OneCountPerClose == totalTrades <= exCloses

\* C5: one close of the position, counted twice
C5_CloseCountedTwice == exCloses = 1 /\ totalTrades = 2

\* C6 (as claimed): a tick that finds the stop-loss percentage breached at the
\* live reference price, and whose close the slippage guard does not abort,
\* issues a market close in that tick.
C6_BreachForcesClose ==
    (lastTick.ran /\ lastTick.breach /\ ~lastTick.guardAbort) => lastTick.closeIssued

\* C6: a tick that found the breach, was not stopped by the slippage guard,
\* and ended without issuing the market close
C6_BreachWithoutClose ==
    /\ lastTick.ran /\ lastTick.breach /\ ~lastTick.guardAbort
    /\ ~lastTick.closeIssued /\ ~lastTick.threw

\* C10 (as claimed): after a greedy exit the manager is not Active again for
\* the position it exited on.
C10_NoReactivationForSamePosition ==
    ~(greedyState.isActive /\ greedyExits.activeEpoch \in greedyExits.exited)

\* C10: the manager Active for a position it has already exited on with an
\* exit verdict, and which is still open
C10_ReactivatedForSamePosition ==
    /\ greedyState.isActive
    /\ greedyExits.activeEpoch \in greedyExits.exited
    /\ greedyExits.last \in {"extra_profit_achieved", "price_reversal_detected"}
    /\ exPos.amt # 0 /\ exPos.epoch = greedyExits.activeEpoch


\* ------------------------------------------------------------------------
\* Claims about the EnhancedTrendEngine (SpecEnhanced)
\* ------------------------------------------------------------------------
\* C4: at no time are two exchange mutation calls (an order placement or a
\* cancel) for the engine's symbol in flight together, also while the
\* analysis timer submits a market order through the base engine's maps and a
\* base tick is suspended on its own awaited mutation.
C4_OneMutationInFlight == Cardinality(inflight) <= 1

\* C4, the case: a base tick is suspended on the placement of its stop order
\* and the analysis timer's market order is in flight beside it
C4_AnalysisOrderBesideTickCall ==
    \E c \in inflight, d \in inflight :
        /\ c.f = 0 /\ c.by = "enhanced" /\ c.kind = "MARKET"
        /\ d.f \in FrameIds /\ frames[d.f].pc # "idle" /\ d.op = "place"
        /\ processing


\* ------------------------------------------------------------------------
\* Claims about reconciliation (SpecSync)
\* ------------------------------------------------------------------------
\* the statuses the engine's handler keeps a pending id for
LiveFor(e, status) ==
    status \in (IF e = "maker" THEN {"", "NEW", "PARTIALLY_FILLED"} ELSE {"", "NEW"})

MatchedLive(e, id, orders) ==
    id # NoId /\ \E o \in orders : o.orderId = id /\ LiveFor(e, o.status)

EngineState ==
    <<accountSnapshot, openOrders, depthSnapshot, tickerSnapshot, klineSnapshot,
      locks, timers, pending, timer, processing, lastPrice,
      lastPositionAmount, lastPositionEntryPrice, wasPositionOpen,
      totalTrades, cancelAllRequested, pendingCancelOrders,
      ordersSnapshotReady, entryPricePendingLogged,
      greedyConfig, greedyState, now, feeRecords,
      exOrders, exPos, frames, inflight, exCloses, greedyExits,
      initialOrderSnapshotReady, initialOrderResetDone>>

RunningTicks == {f \in FrameIds : frames[f].pc # "idle"}

\* C3: for TrendEngine and MakerEngine at most one tick body executes at any
\* time, also while a tick is suspended on an awaited exchange call; a timer
\* firing while the processing flag is true returns at once: it reads and
\* writes nothing, issues no exchange call and leaves nothing queued.
C3_OneTickBody ==
    [][/\ Cardinality(RunningTicks') <= 1
       /\ RunningTicks' # {} => processing'
       /\ tickSkipped' => (processing /\ EngineState' = EngineState)]_vars

\* C3, the case: the timer has fired while a MakerEngine tick was suspended
\* on an exchange call, and the firing was skipped
C3_FiringSkippedDuringAwait ==
    /\ tickSkipped /\ engine = "maker" /\ processing
    /\ \E c \in inflight : c.f \in RunningTicks

\* ------------------------------------------------------------------------
\* C11: take-profit defers to the greedy verdict while the manager is Active
\* ------------------------------------------------------------------------
\* the take-profit evaluations on record: of the ticks parked at an await and
\* of the tick that has just ended
TpChecks ==
    {frames[f].tpCheck : f \in {g \in FrameIds : frames[g].pc # "idle" /\ engine = "trend"}}
        \cup (IF lastTick.ran THEN {lastTick.tpCheck} ELSE {})

StopLossClosed ==
    /\ lastTick.ran /\ lastTick.tpCheck.evaluated /\ ~lastTick.tpCheck.taken
    /\ lastTick.breach /\ lastTick.closeIssued /\ lastTick.closed

\* C12 (as claimed): a step in which the stop-loss check closes the position,
\* or in which stop() shuts the engine down, taken while the greedy state is
\* Active, leaves the greedy state Inactive.
C12_ForcedExitOnStopLossAndStop ==
    [][(greedyState.isActive /\ (StopLossClosed' \/ (timer /\ ~timer')))
           => ~greedyState'.isActive]_vars

\* C12: the stop-loss check has just closed the position of an Active manager
\* and the manager is still Active
C12_ActiveAfterStopLossClose ==
    /\ StopLossClosed /\ lastTick.tpCheck.active /\ greedyState.isActive

\* ------------------------------------------------------------------------
\* C13: the slippage guard stands before every market close of either engine
\* ------------------------------------------------------------------------
\* the market closes the engines have issued and the exchange has not answered
CloseCalls ==
    {c \in inflight : c.op = "place" /\ c.kind = "MARKET"
                      /\ c.by \in {"tpClose", "slClose", "makerClose"}}

\* the best price of the book on the side a close of the given side would hit
\* lies further from the mark price than maxCloseSlippagePct
BookDeviates(depth, account, side) ==
    LET mark == getPosition(account).markPrice
        closeSidePrice == IF side = "SELL" THEN depth.bid ELSE depth.ask
    IN  /\ depth.present /\ mark > 0
        /\ Abs(closeSidePrice - mark) * MaxCloseSlippagePct.d > MaxCloseSlippagePct.n * mark

RestingStops ==
    {o \in exOrders : o.status = "NEW" /\ o.reduceOnly
                      /\ o.type \in {"STOP_MARKET", "TRAILING_STOP_MARKET"}}

\* C14 (as claimed): a TrendEngine tick whose market close the slippage guard
\* aborted has issued no cancel of the resting orders and has put no order id
\* into the pending-cancel set.
C14_GuardAbortChangesNothing ==
    (engine = "trend" /\ lastTick.ran /\ lastTick.guardAbort)
        => /\ lastTick.cancelIds = {}
           /\ pendingCancelOrders = {}

\* C14: the guard has aborted the close after the tick cancelled the resting
\* stop: the position is open and no stop rests at the exchange
C14_AbortedCloseLeftNoStop ==
    /\ engine = "trend" /\ lastTick.ran /\ lastTick.guardAbort /\ ~lastTick.closeIssued
    /\ lastTick.cancelIds # {} /\ lastTick.cancelIds \subseteq pendingCancelOrders
    /\ exPos.amt # 0 /\ RestingStops = {}
    /\ inflight = {}

\* ------------------------------------------------------------------------
\* C15: the submitted stop price against the raw risk-based stop price
\* ------------------------------------------------------------------------
\* the stop placements of the two passes that the exchange has not answered
StopSubmissions ==
    {c \in inflight : c.op = "place" /\ c.kind = "STOP_MARKET" /\ c.f \in FrameIds
                      /\ c.by \in {"regular", "profitLock", "stopReplace"}}

\* the raw price of the pass that submitted the call: the loss-limit stop of
\* the regular pass, entry plus (minus) the profit-lock offset of the other
RawStopPrice(c) ==
    LET fr == frames[c.f]
    IN  IF fr.pass = "regular"
        THEN calcStopLossPrice(fr.position.entryPrice, Abs(fr.position.positionAmt),
                               Direction(fr.position), fr.risk.lossLimit)
        ELSE IF Direction(fr.position) = "long"
        THEN fr.position.entryPrice
                 + (fr.risk.profitLockOffset \div Abs(fr.position.positionAmt))
        ELSE fr.position.entryPrice
                 - (fr.risk.profitLockOffset \div Abs(fr.position.positionAmt))

ReplaceCancels == {c \in inflight : c.op = "cancel" /\ c.by = "stopCancel"}

ReplaceSubmits == {c \in inflight : c.op = "place" /\ c.by = "stopReplace"}

RestingStopOrders == {o \in exOrders : o.status = "NEW" /\ o.type = "STOP_MARKET" /\ o.reduceOnly}

ImprovesByTick(side, candidate, resting) ==
    IF side = "SELL" THEN candidate >= resting + priceTick
    ELSE candidate <= resting - priceTick

LessProtective(side, candidate, resting) ==
    IF side = "SELL" THEN candidate < resting ELSE candidate > resting

\* C16: a step of the engine begins a stop replacement only with a candidate
\* price that improves, by at least one price tick in the protective
\* direction, on every stop order resting at the exchange at that moment,
\* and submits no replacement stop at a less protective price than a stop
\* that rests there; this over every sequence of ticks, the ticks where the
\* profit-lock pass and the regular pass both run included.
C16_ReplaceOnlyImprovesRestingStop ==
    [][/\ \A c \in ReplaceCancels' \ ReplaceCancels : \A o \in RestingStopOrders' :
              ImprovesByTick(o.side, frames'[c.f].nextStop, o.stopPrice)
       /\ \A c \in ReplaceSubmits' \ ReplaceSubmits : \A o \in RestingStopOrders' :
              ~LessProtective(c.side, c.stopPrice, o.stopPrice)]_vars

\* the regular pass of a tick begins a replacement, aimed at the stop the
\* tick found at its start, while the stop the profit-lock pass of the same
\* tick has put to rest is one the candidate price does not improve on
C16_RegularPassReplacesAgainstStaleStop ==
    \E c \in ReplaceCancels : \E o \in RestingStopOrders :
        /\ frames[c.f].pass = "regular"
        /\ frames[c.f].currentStop.present
        /\ c.ids = {frames[c.f].currentStop.orderId}
        /\ o.orderId \notin c.ids
        /\ o.stopPrice = roundDownToTick(optimizedProfitLockStopPrice(frames[c.f]), priceTick)
        /\ ImprovesByTick(o.side, frames[c.f].nextStop, frames[c.f].currentStop.stopPrice)
        /\ ~ImprovesByTick(o.side, frames[c.f].nextStop, o.stopPrice)
        /\ LessProtective(o.side, frames[c.f].nextStop, o.stopPrice)


\* ------------------------------------------------------------------------
\* C17: stop replacement with rollback
\* ------------------------------------------------------------------------
\* the stop entries the tick of the frame has logged, also right after its end
StopLogOf(f) ==
    IF frames[f].pc # "idle" THEN frames[f].stopLog
    ELSE IF lastTick.ran THEN lastTick.stopLog ELSE <<>>

RestoreCalls == {c \in inflight : c.op = "place" /\ c.by = "stopRestore"}

\* the price is on the valid side of the live price the tick has read
ValidForSide(fr, stopPrice) ==
    IF StopSide(fr.position) = "SELL" THEN stopPrice < fr.price ELSE stopPrice > fr.price

\* the step resumes the tick of the frame from the call it was parked on
Resumed(f, pc) ==
    /\ frames[f].pc = pc
    /\ \E c \in inflight : c.f = f /\ c \notin inflight'

MirroredStop ==
    FindOrder(openOrders, "STOP_MARKET", StopSide(getPosition(accountSnapshot)))

\* the step runs the stop passes of a tick that has found no resting stop
TickWithoutStop ==
    /\ engine = "trend" /\ timer /\ Quiet /\ ~processing
    /\ (processing' \/ lastTick'.ran)
    /\ accountSnapshot.present /\ getPosition(accountSnapshot).positionAmt # 0
    /\ ~MirroredStop.present

OpenCalls == {c \in inflight : c.op = "place" /\ c.kind = "MARKET" /\ c.by = "open"}

\* FeeMonitor.shouldStopTrading() on the engine's ledger
FeeBreakerOn == shouldStopTrading(feeConfig, LedgerOf(feeRecords), 0, Balance0)

ProtectiveCalls ==
    {c \in inflight : c.op = "place" /\ c.by \in {"regular", "profitLock", "stopReplace",
                                                  "stopRestore", "trail", "tpClose", "slClose"}}

\* C18: a tick in which the fee monitor says stop submits no opening market
\* order, and a tick that skips its opening order for the fees issues no call
\* and leaves the position as it is; with the breaker on, a tick that finds
\* the position without a stop still calls the stop placement, and every
\* market close the engine submits, breaker on or off, is the take-profit
\* close of a tick whose take-profit check said so or the stop-loss close of
\* a tick whose loss check was breached.
C18_FeeBreakerOnlyBlocksOpening ==
    [][/\ (OpenCalls' \ OpenCalls # {}) => ~FeeBreakerOn'
       /\ (lastTick'.ran /\ lastTick'.feeSkip)
             => /\ FeeBreakerOn'
                /\ inflight' \subseteq inflight
                /\ exPos' = exPos
       /\ (FeeBreakerOn' /\ TickWithoutStop)
             => \E e \in placeTrace' : e.kind = "STOP_MARKET" /\ e.by \in {"regular", "profitLock"}
       /\ \A c \in CloseCalls' \ CloseCalls :
             \/ c.by = "tpClose" /\ frames'[c.f].tpCheck.taken
             \/ c.by = "slClose" /\ frames'[c.f].breach
      ]_vars

\* a tick at a crossing of the SMA, the position flat, has skipped its
\* opening order because the fee monitor, protection enabled, says stop
C18_OpeningSkippedForFees ==
    /\ lastTick.ran /\ lastTick.feeSkip /\ FeeBreakerOn
    /\ feeConfig.enableFeeProtection
    /\ exPos.amt = 0 /\ inflight = {}


\* ------------------------------------------------------------------------
\* C19: fee protection disabled
\* ------------------------------------------------------------------------
\* C19: with enableFeeProtection = false, shouldStopTrading() is false
\* whatever the ledger holds, and no tick skips its opening order for the fees.
C19_DisabledProtectionNeverStops ==
    ~feeConfig.enableFeeProtection
        => /\ ~FeeBreakerOn
           /\ ~(lastTick.ran /\ lastTick.feeSkip)

\* fee protection is disabled, the ledger's one trade exceeds the hourly cap,
\* and a tick at a crossing has skipped its opening order for the fees
C19_OpeningSkippedWithProtectionOff ==
    /\ ~feeConfig.enableFeeProtection
    /\ feeRecords > 0 /\ FeeBreakerOn
    /\ lastTick.ran /\ lastTick.feeSkip
    /\ exPos.amt = 0 /\ OpenCalls = {}


\* ------------------------------------------------------------------------
\* C20: the fee windows
\* ------------------------------------------------------------------------
RECURSIVE FeeSumOver(_)

\* the fees of the ledger's records at the given indices
FeeSumOver(indices) ==
    IF indices = {} THEN 0
    ELSE LET i == CHOOSE x \in indices : TRUE
         IN  feeLedger[i].fee + FeeSumOver(indices \ {i})

\* the records younger than the window at the moment of the read
YoungerThan(window) ==
    {i \in 1..Len(feeLedger) : feeClock - feeLedger[i].timestamp < window}

PctEq(a, b) == a.n * b.d = b.n * a.d

PercentOfBalance(fee) ==
    IF totalBalance > 0 THEN Pct(fee * 100, totalBalance) ELSE Pct(0, 1)

\* C20: every read of the summary gives the windows of the moment of the
\* read: the hourly fee is the sum over the records younger than one hour,
\* the daily fee the sum over those younger than 24 hours, the total the sum
\* over the ledger, and each percentage is the fee as a percent of the
\* current balance, 0 when the balance is 0; fees of 2 and 3 within the hour
\* at balance 1000 read as 0.5% hourly and daily, and a record older than
\* one hour is in the daily and total figures and not in the hourly one.
C20_WindowsAtEveryRead ==
    feeRead.done =>
        LET summary == feeRead.summary
            fees == {feeLedger[i].fee : i \in 1..Len(feeLedger)}
        IN  /\ feeRead.at = feeClock
            /\ summary.hourlyFee = FeeSumOver(YoungerThan(HourMs))
            /\ summary.dailyFee = FeeSumOver(YoungerThan(DayMs))
            /\ summary.totalFee = FeeSumOver(1..Len(feeLedger))
            /\ PctEq(summary.hourlyFeePercent, PercentOfBalance(summary.hourlyFee))
            /\ PctEq(summary.dailyFeePercent, PercentOfBalance(summary.dailyFee))
            /\ (/\ Len(feeLedger) = 2 /\ fees = {2, 3} /\ totalBalance = 1000
                /\ YoungerThan(HourMs) = {1, 2})
                   => /\ PctEq(summary.hourlyFeePercent, Pct(1, 2))
                      /\ PctEq(summary.dailyFeePercent, Pct(1, 2))
            /\ \A i \in 1..Len(feeLedger) :
                   (/\ feeClock - feeLedger[i].timestamp > HourMs
                    /\ feeClock - feeLedger[i].timestamp < DayMs
                    /\ YoungerThan(HourMs) = (1..Len(feeLedger)) \ {i})
                       => /\ summary.hourlyFee = summary.totalFee - feeLedger[i].fee
                          /\ summary.dailyFee = summary.totalFee

\* the summary is read more than one hour after the $2 trade and less than
\* one hour after the $3 trade, balance 1000: hourly 3, daily and total 5
C20_OlderTradeLeftHourlyWindow ==
    /\ feeRead.done /\ totalBalance = 1000
    /\ Len(feeLedger) = 2 /\ feeLedger[1].fee = 2 /\ feeLedger[2].fee = 3
    /\ feeClock - feeLedger[1].timestamp > HourMs
    /\ feeClock - feeLedger[1].timestamp < DayMs
    /\ feeLedger[2].timestamp <= feeLedger[1].timestamp + HourMs
    /\ feeClock - feeLedger[2].timestamp < HourMs
    /\ feeRead.summary.hourlyFee = 3
    /\ feeRead.summary.dailyFee = 5 /\ feeRead.summary.totalFee = 5
    /\ PctEq(feeRead.summary.hourlyFeePercent, Pct(3, 10))
    /\ PctEq(feeRead.summary.dailyFeePercent, Pct(1, 2))


\* ------------------------------------------------------------------------
\* C21: dynamic risk parameters are recomputed on the first ready tick and
\* then only past the threshold (SpecDynamicRisk)
\* ------------------------------------------------------------------------
\* a tick got past its readiness checks in this step: it ran to its end at
\* once, or it is parked on its first await
ReadyTickStarted ==
    \/ Quiet /\ lastTick'.ran
    \/ \E f \in FrameIds : frames[f].pc = "idle" /\ frames'[f].pc # "idle"

PastThreshold(p, last, threshold) ==
    Abs(p - last) * threshold.d >= threshold.n * last

EffectiveRisk(dyn) ==
    [lossLimit |-> dyn.dynamicLossLimit, trailingProfit |-> dyn.dynamicTrailingProfit,
     profitLockTrigger |-> dyn.dynamicProfitLockTrigger,
     profitLockOffset |-> dyn.dynamicProfitLockOffset]

\* C21: with dynamic risk enabled, the four effective parameters are computed
\* by the first ready tick; afterwards a step changes them or the price of
\* the last recompute only if it is a ready tick whose price p has moved from
\* that price by the threshold or more, relative to it, and then the
\* parameters are those computed for p and p is the new recompute price; every
\* other tick and every other step leaves all five unchanged.
C21_RecomputeOnlyPastThreshold ==
    [][LET p == tickerSnapshot.lastPrice
           last == dynamicRisk.lastRiskUpdatePrice
           past == PastThreshold(p, last, riskConfig.dynamicRiskThreshold)
       IN  /\ ReadyTickStarted =>
                  /\ riskCheck'.done /\ riskCheck'.price = p
                  /\ dynamicRisk.isNull => ~dynamicRisk'.isNull
                  /\ (~dynamicRisk.isNull /\ ~past) => dynamicRisk' = dynamicRisk
                  /\ (dynamicRisk.isNull \/ past) =>
                         /\ dynamicRisk'.lastRiskUpdatePrice = p
                         /\ EffectiveRisk(dynamicRisk') =
                                calculateRiskParams(riskConfig.manager, p)
           /\ ~ReadyTickStarted => dynamicRisk' = dynamicRisk
           /\ ~dynamicRisk'.isNull =>
                  EffectiveRisk(dynamicRisk') =
                      calculateRiskParams(riskConfig.manager,
                                          dynamicRisk'.lastRiskUpdatePrice)]_vars

\* a ready tick at a price within the threshold of the last recompute price,
\* and different from it, kept the parameters
C21_TickWithinThresholdKeptParams ==
    /\ riskCheck.done /\ ~riskCheck.recalculated
    /\ ~dynamicRisk.isNull
    /\ riskCheck.price # dynamicRisk.lastRiskUpdatePrice


\* ------------------------------------------------------------------------
\* C22: calculateRiskParams at twice the price (SpecRiskCall)
\* ------------------------------------------------------------------------
RiskOutputs == {"lossLimit", "trailingProfit", "profitLockTrigger", "profitLockOffset"}

\* C22 (as claimed): for every price p, each of lossLimit, trailingProfit,
\* profitLockTrigger and profitLockOffset of calculateRiskParams(2p) is exactly
\* twice that of calculateRiskParams(p).
C22_DoublePriceDoublesExactly ==
    riskCall.done =>
        \A k \in RiskOutputs : riskCall.doubled[k] = 2 * riskCall.params[k]

\* C22 (amended): for every price p, each of the four outputs of
\* calculateRiskParams(2p) is twice that of calculateRiskParams(p) to within
\* one cent, the step of the rounding to two decimals.
C22_DoublePriceDoublesWithinACent ==
    riskCall.done =>
        \A k \in RiskOutputs : Abs(riskCall.doubled[k] - 2 * riskCall.params[k]) <= 1

\* a price at which the loss limit rounds to nothing and at twice the price
\* to one cent
C22_RoundingBreaksDoubling ==
    /\ riskCall.done
    /\ riskCall.params.lossLimit = 0
    /\ riskCall.doubled.lossLimit = 1

\* ------------------------------------------------------------------------
\* C23: shouldStopLossByPercentage(position, price, pct) is true exactly when
\* the position is non-zero, the entry price is valid and the loss relative
\* to the entry has reached pct (long: price <= entry x (1 - pct); short:
\* price >= entry x (1 + pct)). A long from 1.85 with 0.75% fires at 1.836125
\* and below and not at 1.8370; no position or an invalid entry gives false.
\* ------------------------------------------------------------------------
PctLong == pctCall.position.positionAmt > 0

PctShort == pctCall.position.positionAmt < 0

PctValid == pctCall.position.positionAmt # 0 /\ pctCall.position.entryPrice > 0

\* price <= entry x (1 - pct) for a long, price >= entry x (1 + pct) for a short
LossReached(pct) ==
    IF PctLong
    THEN pctCall.price * pct.d <= pctCall.position.entryPrice * (pct.d - pct.n)
    ELSE pctCall.price * pct.d >= pctCall.position.entryPrice * (pct.d + pct.n)

AsterLong ==
    /\ pctCall.done
    /\ pctCall.position.positionAmt = 20
    /\ pctCall.position.entryPrice = 1850000

C23_StopLossExactlyAtLossReached ==
    pctCall.done =>
        /\ pctCall.shouldStop <=> (PctValid /\ LossReached(pctCall.stopLossPercentage))
        /\ (AsterLong /\ pctCall.stopLossPercentage = Pct(3, 400)) =>
               (pctCall.shouldStop <=> pctCall.price <= 1836125)
        /\ (AsterLong /\ pctCall.stopLossPercentage = Pct(3, 400)
                /\ pctCall.price = 1837000) => ~pctCall.shouldStop
        /\ ~PctValid => ~pctCall.shouldStop

C23_StopFiresAtBoundary ==
    /\ AsterLong
    /\ pctCall.stopLossPercentage = Pct(3, 400)
    /\ pctCall.price = 1836125
    /\ pctCall.shouldStop

\* ------------------------------------------------------------------------
\* C24: shouldTakeProfitByPercentage(position, price, pct) is true exactly
\* when the position is non-zero, the entry price is valid and the profit
\* relative to the entry has reached pct, the boundary included (long:
\* price >= entry x (1 + pct); short: price <= entry x (1 - pct)). A long from
\* 1.85 with 1.5% fires at 1.87775 and above. It is false with no position,
\* an invalid entry or a losing position, and never true together with
\* shouldStopLossByPercentage when the percentages are positive.
\* ------------------------------------------------------------------------
ProfitReached(pct) ==
    IF PctLong
    THEN pctCall.price * pct.d >= pctCall.position.entryPrice * (pct.d + pct.n)
    ELSE pctCall.price * pct.d <= pctCall.position.entryPrice * (pct.d - pct.n)

PctLosing ==
    \/ PctLong /\ pctCall.price < pctCall.position.entryPrice
    \/ PctShort /\ pctCall.price > pctCall.position.entryPrice

C24_TakeProfitExactlyAtProfitReached ==
    pctCall.done =>
        /\ pctCall.shouldTakeProfit <=>
               (PctValid /\ ProfitReached(pctCall.takeProfitPercentage))
        /\ (AsterLong /\ pctCall.takeProfitPercentage = Pct(3, 200)) =>
               (pctCall.shouldTakeProfit <=> pctCall.price >= 1877750)
        /\ (~PctValid \/ PctLosing) => ~pctCall.shouldTakeProfit
        /\ (pctCall.stopLossPercentage.n > 0 /\ pctCall.takeProfitPercentage.n > 0) =>
               ~(pctCall.shouldStop /\ pctCall.shouldTakeProfit)

C24_TakeProfitFiresAtBoundary ==
    /\ AsterLong
    /\ pctCall.takeProfitPercentage = Pct(3, 200)
    /\ pctCall.stopLossPercentage = Pct(3, 400)
    /\ pctCall.price = 1877750
    /\ pctCall.shouldTakeProfit
    /\ ~pctCall.shouldStop

\* ------------------------------------------------------------------------
\* C25: every started tick ends with the processing flag false, on normal
\* completion, on an early return and when a step throws; an exception
\* thrown inside a tick is caught and logged by tick() itself, and no tick
\* touches the interval timer, so a later firing finds the flag false and
\* runs a new tick.
\* ------------------------------------------------------------------------
C25_TickEndsWithFlagCleared ==
    [][/\ RunningTicks' = {} => ~processing'
       /\ lastTick'.threw => (lastTick'.ran /\ ~processing' /\ RunningTicks' = {})
       /\ timer' # timer => (frames' = frames /\ ~lastTick'.ran /\ ~tickSkipped')]_vars

\* C25, the case: a tick has just ended in tick()'s catch, the flag is
\* false and the timer still runs
C25_ThrowingTickEnded ==
    /\ lastTick.ran /\ lastTick.threw
    /\ ~processing /\ timer /\ RunningTicks = {}

\* ------------------------------------------------------------------------
\* C26: the handlers of the account, orders, depth, ticker and kline
\* subscriptions replace snapshots and update the lock, pending and
\* pending-cancel bookkeeping, the fee ledger and the log; none of them
\* issues an exchange call (place, cancel, cancel-all, market close): every
\* call in flight is one a running tick is waiting on.
\* ------------------------------------------------------------------------
StreamStep == AccountPush \/ OrdersPush \/ MarketPush \/ KlinePush

\* nothing sent to the exchange, nothing changed on it
ExchangeUntouched(s) ==
    /\ s.inflight = inflight
    /\ s.exOrders = exOrders /\ s.exPos = exPos /\ s.exCloses = exCloses

C26_HandlersIssueNoExchangeCall ==
    [][/\ StreamStep => /\ inflight' = inflight
                        /\ exOrders' = exOrders /\ exPos' = exPos /\ exCloses' = exCloses
       /\ ExchangeUntouched(ExPush(Cur))
       /\ \A mark \in MarkPrices : ExchangeUntouched(watchAccount(Cur, AccountOf(exPos, mark)))
       /\ \A c \in inflight' : c.f \in RunningTicks']_vars

\* C26, the case: the orders stream has delivered resting orders the engine
\* did not place, and no call has been sent
C26_OrdersDeliveredNoCallSent ==
    /\ (initialOrderSnapshotReady \/ ordersSnapshotReady)
    /\ openOrders # {} /\ openOrders = exOrders
    /\ inflight = {} /\ ~processing /\ exCloses = 0

\* ------------------------------------------------------------------------
\* C27: cancelling an order id the exchange has already resolved, once or
\* twice, lets no exception escape the engine; the id is purged from the
\* open-order mirror and its pending-cancel marker is gone afterwards (a
\* further removal, by the handler or by the next push, changes nothing);
\* and no cancel is sent for an id whose pending-cancel marker is set.
\* ------------------------------------------------------------------------
CancelsSent == {c \in inflight' \ inflight : c.op = "cancel"}

\* the answer "already resolved" leaves no mirror entry and sets no marker
ResolvedIdPurged ==
    (cancelAck'.done /\ cancelAck'.outcome = "unknown") =>
        /\ cancelAck'.ids \cap pendingCancelOrders' \subseteq pendingCancelOrders
        /\ cancelAck'.ids \cap OrderIdsOf(openOrders') = {}

NoCancelEscapes == cancelAck'.done => ~lastTick'.threw

C27_CancelOfResolvedIdIsBenign ==
    [][/\ ResolvedIdPurged
       /\ NoCancelEscapes
       /\ \A c \in CancelsSent : c.ids \cap pendingCancelOrders = {}]_vars

\* the same with the last part for MakerEngine alone, whose cancel loops
\* skip the marked ids
MakerCancelOfResolvedIdIsBenign ==
    [][/\ ResolvedIdPurged
       /\ NoCancelEscapes
       /\ engine = "maker" => \A c \in CancelsSent : c.ids \cap pendingCancelOrders = {}]_vars

\* C27, the case: TrendEngine, whose cancel before a close was acknowledged
\* and whose close did not go out, sends the cancel for the marked id again
C27_TrendCancelsMarkedId ==
    /\ engine = "trend"
    /\ \E c \in inflight : c.op = "cancel" /\ c.ids \cap pendingCancelOrders # {}

\* a cancel was answered "already resolved" and the id is gone
ResolvedIdCancelled ==
    /\ cancelAck.done /\ cancelAck.outcome = "unknown"
    /\ cancelAck.ids \cap pendingCancelOrders = {}
    /\ cancelAck.ids \cap OrderIdsOf(openOrders) = {}
    /\ ~lastTick.threw

\* ------------------------------------------------------------------------
\* C28: while the position is non-zero and its entry price is missing or
\* zero, a tick takes no risk action (no stop or trailing stop placed or
\* replaced, no market close, no greedy activation) and the deferral is
\* logged once per run of deferring ticks, not on every tick; the first tick
\* that sees a valid entry price ends the run and evaluates the risk again.
\* ------------------------------------------------------------------------
EntryPendingFor(position) == position.positionAmt # 0 /\ ~hasEntryPrice(position)

\* the step is the deferral of a tick
DeferralStep == entryPending' # entryPending /\ entryPending'.ticks >= 1

\* the calls a MakerEngine tick issues to maintain its quotes
QuoteCalls == {c \in inflight : c.by \in {"maker", "mCancel"}}

C28_EntryPendingDefersRiskLoggedOnce ==
    [][/\ entryPending'.ticks >= 1 => entryPending'.logs = 1
       /\ DeferralStep => /\ inflight' \subseteq inflight
                          /\ greedyState' = greedyState
                          /\ exCloses' = exCloses
       /\ \A c \in inflight' :
              (c.f \in FrameIds /\ EntryPendingFor(frames'[c.f].position)) =>
                  (engine = "maker" /\ c \in QuoteCalls')
       /\ \A f \in RunningTicks' :
              (engine = "trend" /\ frames'[f].position.positionAmt # 0
                   /\ hasEntryPrice(frames'[f].position)) => entryPending'.ticks = 0]_vars

\* C28, the case: the second tick in a row has deferred and one line is logged
C28_SecondDeferralNotLogged ==
    /\ entryPending.ticks >= 2 /\ entryPending.logs = 1
    /\ entryPricePendingLogged
    /\ EntryPendingFor(getPosition(accountSnapshot))
    /\ inflight = {}


\* ------------------------------------------------------------------------
\* C29: the externally-opened-position event (the manual-open log line and its
\* fee record) is produced only for a zero to non-zero position transition that
\* no order of the engine caused: the position the event reports was not
\* opened by a market order the engine itself submitted
C29_ManualOpenEventOnlyForExternalOpen ==
    manualOpenEvent.done => ~manualOpenEvent.own

\* the event is produced for the position the engine's own market order opened
C29_OwnOpenReportedAsManual ==
    /\ manualOpenEvent.done
    /\ manualOpenEvent.own
    /\ engine = "trend"

\* the event for a position that was opened from outside
ExternalOpenReported ==
    manualOpenEvent.done /\ ~manualOpenEvent.own


\* ------------------------------------------------------------------------
\* C30: start() and stop() of both engines are idempotent: at most one tick
\* timer exists after any sequence of calls and the engine's handle is set
\* exactly when it does, start() on a started engine and stop() on a stopped
\* one change nothing, after stop() no timer exists, and no tick begins while
\* the engine is stopped
TickBegins == TrendTickFire \/ MakerTickFire

C30_StartStopIdempotent ==
    [][/\ intervals' <= 1
       /\ timer' <=> intervals' = 1
       /\ (StartAnyTime /\ timer) => Cur' = Cur
       /\ (StopAnyTime /\ ~timer) => Cur' = Cur
       /\ lifecycleCall'.call = "stop" => (~timer' /\ intervals' = 0)
       /\ ~timer => ~TickBegins]_vars

\* start() called on a started engine while a tick is parked on an exchange call
C30_StartOnStartedEngine ==
    /\ lifecycleCall = [call |-> "start", was |-> TRUE]
    /\ timer /\ intervals = 1
    /\ RunningTicks # {}

\* stop() called on a stopped engine that had run before
StopOnStoppedEngine ==
    /\ lifecycleCall = [call |-> "stop", was |-> FALSE]
    /\ ~timer /\ lastPrice # 0


\* ------------------------------------------------------------------------
\* C31: after any sequence of push and replace calls the trade log holds at
\* most maxEntries entries, and they are exactly the most recent entries it
\* was handed, in order: the oldest entry is the one evicted
MostRecent(seq, n) ==
    SubSeq(seq, (IF Len(seq) > n THEN Len(seq) - n ELSE 0) + 1, Len(seq))

LogBounded(log) ==
    /\ Len(log.entries) <= log.maxEntries
    /\ log.entries = MostRecent(log.history, log.maxEntries)

C31_TradeLogHoldsMostRecentEntries ==
    tradeLog.created => LogBounded(tradeLog)

\* a log of no capacity holds the entries replace() was handed
C31_ReplaceOverfillsEmptyCapacityLog ==
    /\ tradeLog.created /\ tradeLog.last = "replace"
    /\ tradeLog.maxEntries = 0
    /\ Len(tradeLog.entries) > 0

\* with room for at least one entry the log is bounded and holds the most recent
TradeLogOfPositiveCapacityBounded ==
    (tradeLog.created /\ tradeLog.maxEntries >= 1) => LogBounded(tradeLog)

\* a push into a full log evicted the oldest entry
FullLogEvicted ==
    /\ tradeLog.created /\ tradeLog.last = "push"
    /\ tradeLog.maxEntries >= 2
    /\ Len(tradeLog.history) > tradeLog.maxEntries
    /\ tradeLog.entries # SubSeq(tradeLog.history, 1, tradeLog.maxEntries)


\* ------------------------------------------------------------------------
\* C32: maker risk checks value the position at its closing-side price (best
\* bid for a long, best ask for a short): shouldMakerStopLoss is true iff the
\* position is non-zero with a valid entry price and the PnL at that price is
\* below -lossLimit, shouldMakerTakeProfit iff that PnL is at least
\* profitTarget, computeMakerPnl is 0 with no position or an invalid entry
\* price, and checkRisk executes at most one close per tick, the stop-loss
\* before the take-profit
ClosingSidePnl(call) ==
    ((IF call.positionAmt > 0 THEN call.bidPrice ELSE call.askPrice) - call.entryPrice)
        * call.positionAmt

RiskValid(call) == call.positionAmt # 0 /\ call.entryPrice # 0

MakerTickCloses ==
    \A f \in FrameIds :
        frames[f].pc # "idle" =>
            /\ frames[f].closes <= 1
            /\ frames[f].closes = 1 <=> frames[f].riskBranch \in {"stop", "profit"}
            /\ frames[f].closeIssued => frames[f].closes = 1

C32_MakerRiskAtClosingSidePrice ==
    /\ makerRiskCall.done =>
        /\ makerRiskCall.stopLoss <=>
               (RiskValid(makerRiskCall)
                /\ ClosingSidePnl(makerRiskCall) < 0 - makerRiskCall.lossLimit)
        /\ makerRiskCall.takeProfit <=>
               (RiskValid(makerRiskCall)
                /\ ClosingSidePnl(makerRiskCall) >= makerRiskCall.profitTarget)
        /\ makerRiskCall.pnl = IF RiskValid(makerRiskCall) THEN ClosingSidePnl(makerRiskCall)
                               ELSE 0
        /\ makerRiskCall.branch = "stop" <=> makerRiskCall.stopLoss
        /\ makerRiskCall.branch = "profit" <=>
               (makerRiskCall.takeProfit /\ ~makerRiskCall.stopLoss)
    /\ MakerTickCloses

\* both checks trigger on a short valued at the ask, and the stop-loss is taken
C32_StopLossBeforeTakeProfit ==
    /\ makerRiskCall.done
    /\ makerRiskCall.positionAmt < 0
    /\ makerRiskCall.stopLoss /\ makerRiskCall.takeProfit
    /\ makerRiskCall.branch = "stop"

\* a maker tick that has sent its one close
MakerTickClosed ==
    \E f \in FrameIds :
        frames[f].pc = "mClose" /\ frames[f].closes = 1 /\ frames[f].closeIssued


\* ------------------------------------------------------------------------
\* C33: while the greedy state is Active, after every price update
\* priceHistory holds at most sampleSize samples, and they are the most recent
\* prices in arrival order: a sample appended to a full buffer drops the oldest
HistoryBounded ==
    /\ Len(greedyState.priceHistory) <= greedyConfig.sampleSize
    /\ greedyState.priceHistory = MostRecent(priceArrivals, greedyConfig.sampleSize)

C33_PriceHistoryHoldsMostRecentSamples ==
    (greedyState.isActive /\ greedyCall.op = "update") => HistoryBounded

\* with a sample size of 0 the history holds one sample after an update
C33_HistoryOverZeroSampleSize ==
    /\ greedyState.isActive /\ greedyCall.op = "update"
    /\ greedyConfig.sampleSize = 0
    /\ Len(greedyState.priceHistory) = 1

\* with a sample size of at least 1 the history is bounded in every Active state
HistoryOfPositiveSizeBounded ==
    (greedyState.isActive /\ greedyConfig.sampleSize >= 1) => HistoryBounded

\* an update appended to a full buffer and the oldest sample was dropped
FullHistoryDroppedOldest ==
    /\ greedyState.isActive /\ greedyCall.op = "update"
    /\ greedyConfig.sampleSize >= 2
    /\ Len(priceArrivals) > greedyConfig.sampleSize
    /\ greedyState.priceHistory # SubSeq(priceArrivals, 1, greedyConfig.sampleSize)


\* ------------------------------------------------------------------------
\* C34: in enhanced mode the base TrendEngine runs with its own trading
\* decisions disabled: its SMA30-cross entry logic submits no position-opening
\* order, so the base tick and the analysis loop never both open a position
BaseOpens == {c \in inflight : c.op = "place" /\ c.kind = "MARKET" /\ c.by = "open"}

EnhancedOpens ==
    {c \in inflight : c.op = "place" /\ c.kind = "MARKET" /\ c.by = "enhanced"
                      /\ exPos.amt = 0}

C34_BaseEntryLogicDisabledInEnhancedMode ==
    BaseOpens = {}

\* the base tick's SMA-cross order is in flight from a flat position while the
\* analysis loop is running
C34_BaseTickOpensInEnhancedMode ==
    /\ intervals > 0 /\ exPos.amt = 0
    /\ \E c \in BaseOpens : c.f \in RunningTicks /\ ~c.reduceOnly

\* the orders of both loops in flight together, each opening from flat
BothLoopsOpenAtOnce == BaseOpens # {} /\ EnhancedOpens # {}


\* ------------------------------------------------------------------------
\* C35: for every pending map and every order snapshot TrendEngine's
\* synchronizeLocks and MakerEngine's syncLocksWithOrders unlock exactly the
\* same set of kinds: they agree on absent orders and on every order status
C35_BothReconciliationsUnlockTheSameKinds ==
    syncCompare.done => syncCompare.trend = syncCompare.maker

StatusOfPending(k) ==
    {o.status : o \in {x \in syncCompare.orders : x.orderId = syncCompare.pending[k]}}

\* a pending order pushed as PARTIALLY_FILLED: TrendEngine releases its kind,
\* MakerEngine keeps it
C35_PartiallyFilledSplitsTheTwo ==
    /\ syncCompare.done
    /\ \E k \in Kinds :
        /\ syncCompare.pending[k] # NoId
        /\ StatusOfPending(k) = {"PARTIALLY_FILLED"}
        /\ k \in syncCompare.trend /\ k \notin syncCompare.maker

\* the two agree whenever no pending order is pushed as PARTIALLY_FILLED
AgreeButOnPartiallyFilled ==
    (syncCompare.done
     /\ \A k \in Kinds : syncCompare.pending[k] # NoId
                            => "PARTIALLY_FILLED" \notin StatusOfPending(k))
        => syncCompare.trend = syncCompare.maker

\* both release a kind whose pending order is pushed as FILLED
BothReleaseFilled ==
    /\ syncCompare.done
    /\ \E k \in Kinds :
        /\ syncCompare.pending[k] # NoId /\ StatusOfPending(k) = {"FILLED"}
        /\ k \in syncCompare.trend /\ k \in syncCompare.maker


\* ------------------------------------------------------------------------
\* C36: ticks before the five streams have delivered (SpecTickBoundary)
\* ------------------------------------------------------------------------
AllDelivered ==
    /\ ordersSnapshotReady
    /\ accountSnapshot.present /\ tickerSnapshot.present /\ depthSnapshot.present
    /\ klineSnapshot >= 30

\* C36: a TrendEngine tick that runs before the engine has received an
\* order-stream push, an account snapshot, a ticker, a depth snapshot and at
\* least 30 klines issues no exchange mutation: it only emits an update and
\* leaves every field of the engine as it was
C36_NoMutationBeforeAllStreamsDelivered ==
    [][(TrendTickFire /\ ~AllDelivered) =>
           /\ inflight' = inflight
           /\ exOrders' = exOrders /\ exPos' = exPos
           /\ RunningTicks' = RunningTicks
           /\ Cur' = Cur]_vars

\* a tick ran and returned early with the account and the market data
\* complete and the order stream still silent
C36_EarlyTickOnlyEmits ==
    /\ engine = "trend" /\ earlyTick
    /\ ~ordersSnapshotReady
    /\ accountSnapshot.present
    /\ tickerSnapshot.present /\ depthSnapshot.present /\ klineSnapshot >= 30
    /\ inflight = {}

\* ------------------------------------------------------------------------
\* C37: MakerEngine's startup order reset (SpecEngines)
\* ------------------------------------------------------------------------
ResetCalls == {c \in inflight : c.op = "cancelAll"}

ExchangeResting == {o \in exOrders : o.status = "NEW"}

\* a tick begins that finds the reset pending, the streams delivered and
\* orders open
ResetTickBegins ==
    /\ MakerTickFire /\ ~processing
    /\ ~initialOrderResetDone /\ initialOrderSnapshotReady
    /\ accountSnapshot.present /\ depthSnapshot.present
    /\ openOrders # {}

\* the exchange answers the cancelAllOrders of the reset
ResetAnswered == MakerTickResume /\ ResetCalls # {} /\ ResetCalls' = {}

\* C37: MakerEngine places no order before its startup order reset is done.
\* While the reset is pending the only call the engine has in flight is the
\* reset's cancelAllOrders; the reset becomes done only after the first order
\* push, and only in a tick that finds no open order or on an answer to
\* cancelAllOrders that leaves no order resting at the exchange; an answer that
\* leaves the reset pending ends the tick with nothing else in flight, and the
\* next tick that finds orders open sends cancelAllOrders again; once done the
\* reset stays done and cancelAllOrders is never sent again.
C37_NoOrderBeforeStartupReset ==
    /\ [](engine = "maker" =>
            /\ ~initialOrderResetDone => inflight = ResetCalls
            /\ initialOrderResetDone => initialOrderSnapshotReady /\ ResetCalls = {})
    /\ [][engine = "maker" =>
            /\ (~initialOrderResetDone /\ initialOrderResetDone') =>
                   \/ MakerTickFire /\ openOrders = {}
                   \/ ResetAnswered /\ ExchangeResting' = {}
            /\ (ResetAnswered /\ ~initialOrderResetDone') =>
                   /\ inflight' = {} /\ ~processing'
                   /\ ExchangeResting' = ExchangeResting
            /\ ResetTickBegins => ResetCalls' # {} /\ ~initialOrderResetDone'
            /\ initialOrderResetDone => initialOrderResetDone']_vars

\* C37, the case: a tick is parked on the cancelAllOrders of the reset, with
\* orders left from before the start resting at the exchange
C37_StartupResetRunning ==
    /\ engine = "maker"
    /\ ~initialOrderResetDone
    /\ ResetCalls # {}
    /\ ExchangeResting # {}

\* the reset has failed once and left the leftover orders resting
ResetLeftPending ==
    /\ engine = "maker" /\ ~initialOrderResetDone /\ initialOrderSnapshotReady
    /\ ~processing /\ inflight = {} /\ openOrders # {} /\ intervals > 0
    /\ accountSnapshot.present /\ depthSnapshot.present

\* the engine quotes after the reset has cancelled the leftover orders
QuotesAfterReset ==
    /\ engine = "maker" /\ initialOrderResetDone
    /\ \E c \in inflight : c.op = "place"

\* ------------------------------------------------------------------------
\* C38: one fee record for a filled order (SpecFillListing)
\* ------------------------------------------------------------------------
RecordedIds == {feeOrderIds[i] : i \in 1..Len(feeOrderIds)}

\* the tick records a closing trade on seeing the position gone
TransitionCloseRecorded == engine = "trend" /\ wasPositionOpen /\ ~wasPositionOpen'

\* C38 (as claimed): each filled exchange order contributes at most one
\* record to the fee ledger. No order id is recorded twice by the order
\* stream's handler, and the tick records a close as a position transition
\* only when some close of the position has not been recorded by its order id.
C38_OneFeeRecordPerFilledOrder ==
    /\ [](\A i, j \in 1..Len(feeOrderIds) : feeOrderIds[i] = feeOrderIds[j] => i = j)
    /\ [][TransitionCloseRecorded => Cardinality(RecordedIds') < exCloses']_vars

\* C38: the one stop that closed the position is in the ledger twice under
\* its order id
C38_FilledOrderRecordedTwice ==
    /\ engine = "trend"
    /\ exCloses = 1
    /\ Len(feeOrderIds) = 2 /\ feeOrderIds[1] = feeOrderIds[2]
    /\ \E o \in exOrders : o.status = "FILLED" /\ ToString(o.orderId) = feeOrderIds[1]

\* the one close of the position, by a stop recorded under its order id, has
\* been seen by a tick as a position transition as well
FilledOrderAlsoRecordedAsTransition ==
    /\ engine = "trend"
    /\ exCloses = 1 /\ Cardinality(RecordedIds) = 1
    /\ totalTrades >= 1 /\ ~wasPositionOpen
    /\ exPos.amt = 0

\* without a FILLED order in the pushes the handler records nothing
NoListingNoHandlerRecord == feeOrderIds = <<>>

\* ------------------------------------------------------------------------
\* C39: EnhancedTrendEngine.stop() (SpecEnhancedStop)
\* ------------------------------------------------------------------------
Placements == {c \in inflight : c.op = "place"}

\* C39 (as claimed): after EnhancedTrendEngine.stop() has returned and until
\* start() is called again, the engine submits no further order, neither from
\* the base engine's tick nor from the enhanced analysis loop: a step that
\* begins and ends with the engine stopped adds no placement to the calls in
\* flight.
C39_NoOrderAfterStop ==
    [][(~timer /\ ~timer') => Placements' \subseteq Placements]_vars

\* C39: the analysis interval has fired on the stopped engine and has
\* submitted a market order
C39_AnalysisOrderAfterStop ==
    /\ ~timer
    /\ analysisCall.ran /\ analysisCall.stopped /\ analysisCall.submitted
    /\ \E c \in inflight : c.by = "enhanced"

\* the analysis loop alone: the same, for the orders of the analysis loop
NoAnalysisOrderAfterStop ==
    [][(~timer /\ ~timer') =>
           {c \in Placements' : c.by = "enhanced"} \subseteq Placements]_vars

\* the analysis interval fires on the stopped engine after the connection to
\* the kline store could not be closed
AnalysisAfterFailedDisconnect ==
    /\ ~timer /\ analysisCall.ran /\ analysisCall.stopped
    /\ ~klineManager.disconnecting

\* once the connection is closed the analysis loop submits nothing
ClosedConnectionSilencesAnalysis ==
    [][~klineManager.isConnected => ~analysisCall'.ran]_vars

\* the base engine alone: the same, for the orders of the base engine's tick
NoBaseOrderAfterStop ==
    [][(~timer /\ ~timer') =>
           {c \in Placements' : c.by # "enhanced"} \subseteq Placements]_vars

\* ------------------------------------------------------------------------
\* C40: the fee circuit breaker of EnhancedTrendEngine (SpecEnhancedFees)
\* ------------------------------------------------------------------------
\* the fees the enhanced engine has recorded exceed a cap as a percentage of
\* the account balance
EnhancedFeesOverCap ==
    shouldStopTrading(feeConfig, LedgerOf(enhancedFeeRecords), 0, Balance0)

\* C40 (as claimed): in EnhancedTrendEngine the fee circuit breaker is
\* effective. Once the fees it has recorded exceed the configured cap as a
\* percentage of the account balance, its shouldStopTrading() is true and
\* executeEnhancedTradingDecision submits no order; and a fee record is added
\* to its ledger only for an order that was actually submitted.
C40_EnhancedFeeBreakerEffective ==
    /\ [](EnhancedFeesOverCap => enhancedFeeMonitorShouldStop(Cur))
    /\ [][/\ analysisCall'.overCap => ~analysisCall'.submitted
          /\ analysisCall'.recorded => analysisCall'.submitted]_vars

\* C40: the analysis loop has submitted an order with its recorded fees over
\* the cap
C40_OrderSubmittedOverFeeCap ==
    /\ analysisCall.ran /\ analysisCall.overCap
    /\ analysisCall.submitted
    /\ ~enhancedFeeMonitorShouldStop(Cur)

\* a fee is in the enhanced engine's ledger for an order that was never
\* submitted
FeeRecordedWithoutOrder ==
    /\ analysisCall.ran /\ analysisCall.recorded /\ ~analysisCall.submitted
    /\ enhancedFeeRecords > 0

\* whatever it has recorded, the enhanced engine's monitor never says stop
EnhancedMonitorNeverStops == ~enhancedFeeMonitorShouldStop(Cur)

\* the record is made before the order: every submitted order has its record
SubmittedOrderIsRecorded == analysisCall.submitted => analysisCall.recorded
====
